---- MODULE Spec2Model ----
(***************************************************************************)
(* A model of the chess application in src/app.js: the ChessEngine class   *)
(* (board, side to move, castling rights, en passant target, clocks,       *)
(* cached king squares, Zobrist hash, hash line and repetition map), the   *)
(* evaluator, the search, and the controller's move history.               *)
(*                                                                         *)
(* Squares are 0..63, row-major from a8 (0) to h1 (63), as in the source.  *)
(* Strings of the source that are taken apart character by character (FEN  *)
(* text) are sequences of one-character strings.                           *)
(*                                                                         *)
(* The 64-bit Zobrist keys are modelled symbolically: key number k stands  *)
(* for the k-th random word of ZOBRIST, and a hash is the set of the keys  *)
(* XOR-ed into it an odd number of times (XOR is symmetric difference).    *)
(***************************************************************************)
EXTENDS Integers, Sequences, FiniteSets, TLC

\* ------------------------------------------------------------------ values

\* JavaScript null for a piece, a promotion or a castle side.
null == "null"
\* JavaScript null / undefined for a square index (engine.ep, capturedIndex).
NoSq == -1
\* Number(...) of a token that is not a number.
NaN == -1000
\* Infinity in the search (scores stay far below it).
Infinity == 1000000

Squares == 0..63

FILES == <<"a", "b", "c", "d", "e", "f", "g", "h">>
RANKS == <<"8", "7", "6", "5", "4", "3", "2", "1">>

WhitePieces == {"P", "N", "B", "R", "Q", "K"}
BlackPieces == {"p", "n", "b", "r", "q", "k"}
PieceLetters == WhitePieces \cup BlackPieces

toLowerCase(p) ==
  CASE p = "P" -> "p" [] p = "N" -> "n" [] p = "B" -> "b"
    [] p = "R" -> "r" [] p = "Q" -> "q" [] p = "K" -> "k"
    [] OTHER -> p

toUpperCase(p) ==
  CASE p = "p" -> "P" [] p = "n" -> "N" [] p = "b" -> "B"
    [] p = "r" -> "R" [] p = "q" -> "Q" [] p = "k" -> "K"
    [] OTHER -> p

abs(n) == IF n < 0 THEN -n ELSE n

clamp(n, a, b) ==
  LET m == IF b < n THEN b ELSE n IN IF a > m THEN a ELSE m

fileOf(index) == index % 8

rankOf(index) == index \div 8

\* String.prototype.indexOf on FILES / RANKS: 0-based, -1 when absent.
indexOfChar(str, ch) ==
  IF \E i \in 1..Len(str) : str[i] = ch
    THEN (CHOOSE i \in 1..Len(str) : str[i] = ch) - 1
    ELSE -1

indexToSquare(index) == <<FILES[fileOf(index) + 1], RANKS[rankOf(index) + 1]>>

squareToIndex(square) ==
  IF Len(square) < 2 THEN NoSq
  ELSE LET file == indexOfChar(FILES, square[1])
           rank == indexOfChar(RANKS, square[2])
       IN IF file < 0 \/ rank < 0 THEN NoSq ELSE rank * 8 + file

isUpper(piece) == piece \in WhitePieces

colorOf(piece) ==
  IF piece = null THEN null ELSE IF isUpper(piece) THEN "w" ELSE "b"

opponent(color) == IF color = "w" THEN "b" ELSE "w"

\* The index of a piece type in "pnbrqk".
typeIndex(t) ==
  CASE t = "p" -> 0 [] t = "n" -> 1 [] t = "b" -> 2
    [] t = "r" -> 3 [] t = "q" -> 4 [] t = "k" -> 5

pieceIndex(piece) ==
  (IF piece = toUpperCase(piece) THEN 0 ELSE 6) + typeIndex(toLowerCase(piece))

castleMaskFromRights(rights) ==
  (IF rights.K THEN 1 ELSE 0) + (IF rights.Q THEN 2 ELSE 0)
    + (IF rights.k THEN 4 ELSE 0) + (IF rights.q THEN 8 ELSE 0)

\* ----------------------------------------------------------------- Zobrist

\* The number of the key ZOBRIST.piece[idx][sq], ZOBRIST.side,
\* ZOBRIST.castle[mask] and ZOBRIST.epFile[file] in generation order.
ZPiece(idx, sq) == idx * 64 + sq
ZSide == 768
ZCastle(mask) == 769 + mask
ZEpFile(file) == 785 + file

\* h ^= key
Xor(h, key) == IF key \in h THEN h \ {key} ELSE h \cup {key}

\* if (cond) h ^= key
XorIf(h, cond, key) == IF cond THEN Xor(h, key) ELSE h

\* The keys of the pieces on the board, lines 207-212: the keys of distinct
\* (piece, square) pairs are distinct, so their xor is their set.
hashBoard(board) ==
  {ZPiece(pieceIndex(board[sq]), sq) : sq \in {i \in Squares : board[i] # null}}

computeHash(e) ==
  XorIf(Xor(XorIf(hashBoard(e.board), e.turn = "b", ZSide),
            ZCastle(castleMaskFromRights(e.castling))),
        e.ep # NoSq, ZEpFile(fileOf(e.ep)))

\* The repetition map: a function from the hashes it holds to their counts.
repGet(rep, key) == IF key \in DOMAIN rep THEN rep[key] ELSE 0

repSet(rep, key, n) ==
  [k \in DOMAIN rep \cup {key} |-> IF k = key THEN n ELSE rep[k]]

\* A map whose delete does nothing.
repKeep(rep, key) == rep

repDelete(rep, key) == [k \in DOMAIN rep \ {key} |-> rep[k]]

\* rep.set(key, (rep.get(key) || 0) + 1)
\* A map that counts every position once.
repOnce(rep, key) == repSet(rep, key, 1)

repBump(rep, key) == repSet(rep, key, repGet(rep, key) + 1)

RECURSIVE repFromLine(_, _)
repFromLine(line, i) ==
  IF i = 0 THEN <<>> ELSE repBump(repFromLine(line, i - 1), line[i])

setRepetitionFromLine(e) ==
  [e EXCEPT !.rep = repFromLine(e.hashLine, Len(e.hashLine))]

\* -------------------------------------------------------------------- text

Digits == <<"0", "1", "2", "3", "4", "5", "6", "7", "8", "9">>

isDigit(ch) == indexOfChar(Digits, ch) >= 0

\* str.split(sep) for a one-character separator: empty pieces are kept.
split(str, sep) ==
  LET seps == {i \in 1..Len(str) : str[i] = sep}
      ends == seps \cup {Len(str) + 1}
      start(k) == IF k = 1 THEN 1
                  ELSE 1 + CHOOSE i \in seps : Cardinality({j \in seps : j < i}) = k - 2
      end(k) == CHOOSE i \in ends : Cardinality({j \in seps : j < i}) = k - 1
  IN [k \in 1..(Cardinality(seps) + 1) |-> SubSeq(str, start(k), end(k) - 1)]

\* str.trim().split(/\s+/): the maximal runs of non-blank characters; the
\* empty (or all-blank) string gives one empty part.
splitWhitespace(str) ==
  LET raw == SelectSeq(split(str, " "), LAMBDA t : Len(t) > 0)
  IN IF Len(raw) = 0 THEN << <<>> >> ELSE raw

\* String(n) of a non-negative integer.
RECURSIVE String(_)
String(n) ==
  IF n < 10 THEN <<Digits[n + 1]>>
  ELSE Append(String(n \div 10), Digits[(n % 10) + 1])

RECURSIVE digitsValue(_, _)
digitsValue(str, i) ==
  IF i = 0 THEN 0
  ELSE digitsValue(str, i - 1) * 10 + indexOfChar(Digits, str[i])

\* Number(str) for the tokens of the model: an optionally signed run of
\* decimal digits is that integer, any other text is NaN.
Number(str) ==
  LET neg == Len(str) > 0 /\ str[1] = "-"
      body == IF neg THEN Tail(str) ELSE str
  IN IF Len(body) = 0 \/ \E i \in 1..Len(body) : ~isDigit(body[i]) THEN NaN
     ELSE IF neg THEN -digitsValue(body, Len(body))
     ELSE digitsValue(body, Len(body))

RECURSIVE joinWith(_, _)
joinWith(parts, sep) ==
  IF Len(parts) = 0 THEN <<>>
  ELSE IF Len(parts) = 1 THEN parts[1]
  ELSE parts[1] \o <<sep>> \o joinWith(Tail(parts), sep)

\* ------------------------------------------------------------------ engine

EmptyBoard == [i \in Squares |-> null]

\* toFEN, lines 231-257: the six fields joined by single blanks.
RECURSIVE fenRow(_, _, _, _)
fenRow(board, r, f, empty) ==
  IF f = 8 THEN (IF empty > 0 THEN String(empty) ELSE <<>>)
  ELSE LET p == board[r * 8 + f]
       IN IF p = null THEN fenRow(board, r, f + 1, empty + 1)
          ELSE (IF empty > 0 THEN String(empty) ELSE <<>>) \o <<p>>
                 \o fenRow(board, r, f + 1, 0)

fenPlacement(board) ==
  joinWith([r \in 1..8 |-> fenRow(board, r - 1, 0, 0)], "/")

fenCastling(rights) ==
  LET s == (IF rights.K THEN <<"K">> ELSE <<>>) \o (IF rights.Q THEN <<"Q">> ELSE <<>>)
             \o (IF rights.k THEN <<"k">> ELSE <<>>) \o (IF rights.q THEN <<"q">> ELSE <<>>)
  IN IF Len(s) = 0 THEN <<"-">> ELSE s

toFEN(e) ==
  joinWith(<<fenPlacement(e.board), <<e.turn>>, fenCastling(e.castling),
             IF e.ep = NoSq THEN <<"-">> ELSE indexToSquare(e.ep),
             String(e.halfmove), String(e.fullmove)>>, " ")

\* loadFEN, lines 259-317.  Each step works on the live engine, so an error
\* raised part-way leaves the fields assigned so far.  The result is the
\* engine after the call and the error thrown ("" when none).

\* One rank of the placement, lines 270-284: [board, file, wKing, bKing, err].
RECURSIVE loadRow(_, _, _, _)
loadRow(st, row, r, i) ==
  IF st.err # "" THEN st
  ELSE IF i > Len(row)
    THEN (IF st.file # 8 THEN [st EXCEPT !.err = "row length"] ELSE st)
  ELSE LET ch == row[i] IN
    IF st.file > 7 THEN [st EXCEPT !.err = "row overflow"]
    ELSE IF isDigit(ch) /\ ch # "0" /\ ch # "9"
      THEN loadRow([st EXCEPT !.file = @ + indexOfChar(Digits, ch)], row, r, i + 1)
    ELSE IF ch \notin PieceLetters THEN [st EXCEPT !.err = "bad piece"]
    ELSE LET idx == r * 8 + st.file
         IN loadRow([st EXCEPT !.board[idx] = ch,
                               !.wKing = IF ch = "K" THEN idx ELSE @,
                               !.bKing = IF ch = "k" THEN idx ELSE @,
                               !.file = @ + 1], row, r, i + 1)

RECURSIVE loadRows(_, _, _)
loadRows(st, rows, r) ==
  IF r = 8 \/ st.err # "" THEN st
  ELSE loadRows(loadRow([st EXCEPT !.file = 0], rows[r + 1], r, 1), rows, r + 1)

\* The castling field, lines 291-297: [castling, err].
RECURSIVE loadCastling(_, _, _)
loadCastling(st, str, i) ==
  IF i > Len(str) THEN st
  ELSE IF str[i] \notin {"K", "Q", "k", "q"} THEN [st EXCEPT !.err = "castling"]
  ELSE loadCastling([st EXCEPT !.castling[str[i]] = TRUE], str, i + 1)

\* throw new Error(msg) out of loadFEN with the engine as it is by then.
Throw(eng, msg) == [eng |-> eng, err |-> msg]

EmptyRights == [K |-> FALSE, Q |-> FALSE, k |-> FALSE, q |-> FALSE]

\* The clock of a numeric field, lines 306-309: absent, NaN or below the
\* least value gives the default.
clockValue(n, least) == IF n = NaN \/ n < least THEN least ELSE n

clockOf(parts, i, least) ==
  IF Len(parts) < i THEN least ELSE clockValue(Number(parts[i]), least)

\* Lines 306-317: clocks, king squares, hash, hash line, repetition map.
loadRest(e, parts, st, epIdx) ==
  [eng |-> setRepetitionFromLine(
             [e EXCEPT !.ep = epIdx,
                       !.halfmove = clockOf(parts, 5, 0),
                       !.fullmove = clockOf(parts, 6, 1),
                       !.wKing = st.wKing,
                       !.bKing = st.bKing,
                       !.hash = computeHash([e EXCEPT !.ep = epIdx]),
                       !.hashLine = <<computeHash([e EXCEPT !.ep = epIdx])>>]),
   err |-> ""]

\* Lines 299-304: the en passant field.
loadEp(e, parts, st, epIdx) ==
  IF parts[4] # <<"-">> /\ epIdx = NoSq THEN Throw(e, "en passant")
  ELSE loadRest(e, parts, st, epIdx)

\* Lines 291-297: the castling field, assigned before its error is thrown.
loadRights(e, parts, st, cs) ==
  IF cs.err # "" THEN Throw([e EXCEPT !.castling = cs.castling], cs.err)
  ELSE loadEp([e EXCEPT !.castling = cs.castling], parts, st,
              IF parts[4] = <<"-">> THEN NoSq ELSE squareToIndex(parts[4]))

\* Lines 286-290: kings and side to move; the board is already replaced.
loadTurn(e, parts, st) ==
  IF st.err # "" THEN Throw(e, st.err)
  ELSE IF st.wKing = NoSq \/ st.bKing = NoSq THEN Throw(e, "missing king")
  ELSE IF parts[2] # <<"w">> /\ parts[2] # <<"b">> THEN Throw(e, "turn")
  ELSE loadRights([e EXCEPT !.turn = parts[2][1]], parts, st,
                  IF parts[3] = <<"-">> THEN [castling |-> EmptyRights, err |-> ""]
                  ELSE loadCastling([castling |-> EmptyRights, err |-> ""],
                                    parts[3], 1))

\* Lines 263-284: the placement rows written into a cleared board.
loadBoard(e, parts, st) == loadTurn([e EXCEPT !.board = st.board], parts, st)

loadPlacement(e, parts, rows) ==
  IF Len(rows) # 8 THEN Throw(e, "piece placement")
  ELSE loadBoard(e, parts,
                 loadRows([board |-> EmptyBoard, file |-> 0, wKing |-> NoSq,
                           bKing |-> NoSq, err |-> ""], rows, 0))

loadParts(e, parts) ==
  IF Len(parts) < 4 THEN Throw(e, "expected at least 4 fields")
  ELSE loadPlacement(e, parts, split(parts[1], "/"))

loadFEN(e, fen) == loadParts(e, splitWhitespace(fen))

\* ----------------------------------------------------------------- attacks

\* A step test that lets a knight or king leave the board on one side and
\* come back on the other.
nearAnywhere(t, a, b) == TRUE

\* isSquareAttacked, lines 324-393.
\* The file/rank distance test of a knight ("n") or king ("k") step.
near(t, a, b) ==
  LET df == abs(fileOf(a) - fileOf(b))
      dr == abs(rankOf(a) - rankOf(b))
  IN IF t = "n" THEN (df = 1 /\ dr = 2) \/ (df = 2 /\ dr = 1)
     ELSE df <= 1 /\ dr <= 1

leaperAttacks(board, square, deltas, piece) ==
  \E d \in deltas :
    LET from == square + d IN
      /\ from >= 0 /\ from < 64
      /\ near(toLowerCase(piece), square, from)
      /\ board[from] = piece

\* The while loop of scan for one direction d, from square cur on.
RECURSIVE scanRay(_, _, _, _, _)
scanRay(board, cur, d, byColor, rookLike) ==
  IF cur < 0 \/ cur >= 64 THEN FALSE
  ELSE IF d \notin {-8, 8} /\ abs(fileOf(cur) - fileOf(cur - d)) # 1 THEN FALSE
  ELSE LET p == board[cur] IN
    IF p # null
      THEN /\ colorOf(p) = byColor
           /\ toLowerCase(p) \in (IF rookLike THEN {"r", "q"} ELSE {"b", "q"})
      ELSE scanRay(board, cur + d, d, byColor, rookLike)

isSquareAttacked(board, square, byColor) ==
  LET byWhite == byColor = "w" IN
  \/ \E d \in (IF byWhite THEN {7, 9} ELSE {-9, -7}) :
       LET from == square + d IN
         /\ from >= 0 /\ from < 64
         /\ abs(fileOf(square) - fileOf(from)) = 1
         /\ board[from] = (IF byWhite THEN "P" ELSE "p")
  \/ leaperAttacks(board, square, {-17, -15, -10, -6, 6, 10, 15, 17},
                   IF byWhite THEN "N" ELSE "n")
  \/ leaperAttacks(board, square, {-9, -8, -7, -1, 1, 7, 8, 9},
                   IF byWhite THEN "K" ELSE "k")
  \/ \E d \in {-8, 8, -1, 1} : scanRay(board, square + d, d, byColor, TRUE)
  \/ \E d \in {-9, -7, 7, 9} : scanRay(board, square + d, d, byColor, FALSE)

\* inCheck, lines 319-322: the cached king square of color.
inCheck(e, color) ==
  isSquareAttacked(e.board, IF color = "w" THEN e.wKing ELSE e.bKing, opponent(color))

\* A move object; fields the source leaves undefined are null / NoSq / FALSE.
Move(from, to, piece, captured, promotion) ==
  [from |-> from, to |-> to, piece |-> piece, captured |-> captured,
   capturedIndex |-> NoSq, promotion |-> promotion, isCastle |-> FALSE,
   castleSide |-> null, isEnPassant |-> FALSE, isDoublePawn |-> FALSE]

\* The move null of findBestMove's result.
NullMove == Move(NoSq, NoSq, null, null, null)

Promotions == <<"q", "r", "b", "n">>

\* generatePseudoMoves for a pawn on from, lines 409-449.
pawnMoves(e, color, from) ==
  LET board == e.board
      piece == board[from]
      forward == IF color = "w" THEN -8 ELSE 8
      startRank == IF color = "w" THEN 6 ELSE 1
      promoRank == IF color = "w" THEN 0 ELSE 7
      enemyColor == opponent(color)
      one == from + forward
      two == one + forward
      pushes ==
        IF one >= 0 /\ one < 64 /\ board[one] = null
          THEN IF rankOf(one) = promoRank
                 THEN [i \in 1..4 |-> Move(from, one, piece, null, Promotions[i])]
                 ELSE <<Move(from, one, piece, null, null)>>
                        \o (IF rankOf(from) = startRank /\ board[two] = null
                              THEN <<[Move(from, two, piece, null, null)
                                        EXCEPT !.isDoublePawn = TRUE]>>
                              ELSE <<>>)
          ELSE <<>>
      capture(d) ==
        LET to == from + d IN
        IF to < 0 \/ to >= 64 THEN <<>>
        ELSE IF abs(fileOf(from) - fileOf(to)) # 1 THEN <<>>
        ELSE LET target == board[to] IN
          IF target # null /\ colorOf(target) = enemyColor
            THEN IF rankOf(to) = promoRank
                   THEN [i \in 1..4 |-> Move(from, to, piece, target, Promotions[i])]
                   ELSE <<Move(from, to, piece, target, null)>>
          ELSE IF e.ep # NoSq /\ to = e.ep
            THEN LET capSq == to - forward
                     capPiece == IF capSq >= 0 /\ capSq < 64 THEN board[capSq] ELSE null
                 IN IF capPiece # null /\ toLowerCase(capPiece) = "p"
                        /\ colorOf(capPiece) = enemyColor
                      THEN <<[Move(from, to, piece, capPiece, null)
                                EXCEPT !.capturedIndex = capSq, !.isEnPassant = TRUE]>>
                      ELSE <<>>
          ELSE <<>>
  IN pushes \o capture(IF color = "w" THEN -9 ELSE 7)
            \o capture(IF color = "w" THEN -7 ELSE 9)

\* One delta of a knight or king, lines 451-461 and 491-500.
leaperMoves(board, color, from, deltas) ==
  LET one(d) ==
        LET to == from + d IN
        IF to < 0 \/ to >= 64 THEN <<>>
        ELSE IF ~near(toLowerCase(board[from]), from, to) THEN <<>>
        ELSE LET target == board[to] IN
          IF target = null \/ colorOf(target) = opponent(color)
            THEN <<Move(from, to, board[from], target, null)>>
            ELSE <<>>
      all[i \in 0..Len(deltas)] ==
        IF i = 0 THEN <<>> ELSE all[i - 1] \o one(deltas[i])
  IN all[Len(deltas)]

\* The while loop of one sliding direction, lines 473-485.
RECURSIVE slideRay(_, _, _, _, _)
slideRay(board, color, from, to, d) ==
  IF to < 0 \/ to >= 64 THEN <<>>
  ELSE IF d \notin {-8, 8} /\ abs(fileOf(to) - fileOf(to - d)) # 1 THEN <<>>
  ELSE LET target == board[to] IN
    IF target = null
      THEN <<Move(from, to, board[from], null, null)>>
             \o slideRay(board, color, from, to + d, d)
    ELSE IF colorOf(target) = opponent(color)
      THEN <<Move(from, to, board[from], target, null)>>
    ELSE <<>>

sliderMoves(board, color, from) ==
  LET t == toLowerCase(board[from])
      dirs == IF t = "b" THEN <<-9, -7, 7, 9>>
              ELSE IF t = "r" THEN <<-8, 8, -1, 1>>
              ELSE <<-9, -7, 7, 9, -8, 8, -1, 1>>
      all[i \in 0..Len(dirs)] ==
        IF i = 0 THEN <<>>
        ELSE all[i - 1] \o slideRay(board, color, from, from + dirs[i], dirs[i])
  IN all[Len(dirs)]

\* canCastle, lines 502-533: the right, the squares that must be empty, the
\* rook and its square, and the squares the king passes, of one castling.
castleShape(color, side) ==
  CASE color = "w" /\ side = "K" ->
         [right |-> "K", empty |-> {61, 62}, rookSq |-> 63, rook |-> "R", pass |-> {61, 62}]
    [] color = "w" /\ side # "K" ->
         [right |-> "Q", empty |-> {59, 58, 57}, rookSq |-> 56, rook |-> "R", pass |-> {59, 58}]
    [] color # "w" /\ side = "K" ->
         [right |-> "k", empty |-> {5, 6}, rookSq |-> 7, rook |-> "r", pass |-> {5, 6}]
    [] OTHER ->
         [right |-> "q", empty |-> {3, 2, 1}, rookSq |-> 0, rook |-> "r", pass |-> {3, 2}]

castleClear(e, color, shape) ==
  /\ e.castling[shape.right]
  /\ \A sq \in shape.empty : e.board[sq] = null
  /\ e.board[shape.rookSq] = shape.rook
  /\ \A sq \in shape.pass : ~isSquareAttacked(e.board, sq, opponent(color))

\* A castling test that does not look at the squares the king passes.
canCastleThroughCheck(e, color, from, side) ==
  /\ ~(color = "w" /\ from # 60)
  /\ ~(color = "b" /\ from # 4)
  /\ ~inCheck(e, color)
  /\ \E shape \in {castleShape(color, side)} :
       /\ e.castling[shape.right]
       /\ \A sq \in shape.empty : e.board[sq] = null
       /\ e.board[shape.rookSq] = shape.rook

canCastle(e, color, from, side) ==
  /\ ~(color = "w" /\ from # 60)
  /\ ~(color = "b" /\ from # 4)
  /\ ~inCheck(e, color)
  /\ castleClear(e, color, castleShape(color, side))

\* generatePseudoMoves for a king on from, lines 490-538.
kingMoves(e, color, from) ==
  LET castle(side, to) ==
        IF canCastle(e, color, from, side)
          THEN <<[Move(from, to, e.board[from], null, null)
                    EXCEPT !.isCastle = TRUE, !.castleSide = side]>>
          ELSE <<>>
  IN leaperMoves(e.board, color, from, <<-9, -8, -7, -1, 1, 7, 8, 9>>)
       \o castle("K", IF color = "w" THEN 62 ELSE 6)
       \o castle("Q", IF color = "w" THEN 58 ELSE 2)

pieceMoves(e, color, from) ==
  LET piece == e.board[from] IN
  IF piece = null \/ colorOf(piece) # color THEN <<>>
  ELSE LET t == toLowerCase(piece) IN
    CASE t = "p" -> pawnMoves(e, color, from)
      [] t = "n" -> leaperMoves(e.board, color, from,
                                <<-17, -15, -10, -6, 6, 10, 15, 17>>)
      [] t \in {"b", "r", "q"} -> sliderMoves(e.board, color, from)
      [] t = "k" -> kingMoves(e, color, from)

\* generatePseudoMoves, lines 395-542: the moves in the order pushed, the
\* squares lo..hi visited in index order.
RECURSIVE movesFrom(_, _, _, _)
movesFrom(e, color, lo, hi) ==
  IF lo = hi THEN pieceMoves(e, color, lo)
  ELSE movesFrom(e, color, lo, (lo + hi) \div 2)
         \o movesFrom(e, color, (lo + hi) \div 2 + 1, hi)

generatePseudoMoves(e, color) == movesFrom(e, color, 0, 63)

\* _moveRookHash, lines 638-644.
moveRookHash(e, from, to, rookPiece) ==
  [e EXCEPT !.board = [@ EXCEPT ![from] = null, ![to] = rookPiece],
            !.hash = Xor(Xor(@, ZPiece(pieceIndex(rookPiece), from)),
                         ZPiece(pieceIndex(rookPiece), to))]

\* Rights that the capture of a rook leaves alone.
rightsKeptOnCapture(castling, to, captured) == castling

\* Rights that every move sets again.
rightsRestored(castling, from, to, piece, captured) ==
  [K |-> TRUE, Q |-> TRUE, k |-> TRUE, q |-> TRUE]

\* _updateCastlingRightsAfterMove, lines 646-668: the mover's rights, then
\* the rights of a captured rook.
rightsAfterCapture(castling, to, captured) ==
  CASE captured = "R" -> [castling EXCEPT !.K = IF to = 63 THEN FALSE ELSE @,
                                          !.Q = IF to = 56 THEN FALSE ELSE @]
    [] captured = "r" -> [castling EXCEPT !.k = IF to = 7 THEN FALSE ELSE @,
                                          !.q = IF to = 0 THEN FALSE ELSE @]
    [] OTHER -> castling

updateCastlingRightsAfterMove(castling, from, to, piece, captured) ==
  rightsAfterCapture(
    CASE piece = "K" -> [castling EXCEPT !.K = FALSE, !.Q = FALSE]
      [] piece = "k" -> [castling EXCEPT !.k = FALSE, !.q = FALSE]
      [] piece = "R" -> [castling EXCEPT !.K = IF from = 63 THEN FALSE ELSE @,
                                         !.Q = IF from = 56 THEN FALSE ELSE @]
      [] piece = "r" -> [castling EXCEPT !.k = IF from = 7 THEN FALSE ELSE @,
                                         !.q = IF from = 0 THEN FALSE ELSE @]
      [] OTHER -> castling,
    to, captured)

\* makeMove, lines 556-636, in the order of its statements.

\* Lines 560-562: the piece the move takes.
capturedOf(e, move) ==
  IF move.isEnPassant THEN e.board[move.capturedIndex] ELSE e.board[move.to]

\* Lines 564-573: the undo record.
undoOf(e, move) ==
  [move |-> move, prevTurn |-> e.turn, prevCastling |-> e.castling,
   prevEp |-> e.ep, prevHalfmove |-> e.halfmove,
   prevFullmove |-> e.fullmove, prevHash |-> e.hash,
   prevWKing |-> e.wKing, prevBKing |-> e.bKing, captured |-> capturedOf(e, move)]

\* Lines 590-592: the piece put on the target square; a promotion takes its
\* colour from the side to move.
placedOf(e, move) ==
  IF move.promotion # null
    THEN (IF e.turn = "w" THEN toUpperCase(move.promotion) ELSE move.promotion)
    ELSE move.piece

\* Lines 575-600: the old en passant and castling keys leave the hash, the
\* piece is lifted, the captured piece removed, the piece placed, the king
\* square of the side to move updated.
movePiece(e, move, captured, capSq, placed) ==
  [e EXCEPT
     !.board = [@ EXCEPT ![move.from] = null,
                         ![capSq] = IF captured # null THEN null ELSE @,
                         ![move.to] = placed],
     !.hash = Xor(XorIf(Xor(Xor(XorIf(@, e.ep # NoSq, ZEpFile(fileOf(e.ep))),
                                ZCastle(castleMaskFromRights(e.castling))),
                            ZPiece(pieceIndex(move.piece), move.from)),
                        captured # null, ZPiece(pieceIndex(captured), capSq)),
                  ZPiece(pieceIndex(placed), move.to)),
     !.wKing = IF toLowerCase(move.piece) = "k" /\ e.turn = "w" THEN move.to ELSE @,
     !.bKing = IF toLowerCase(move.piece) = "k" /\ e.turn # "w" THEN move.to ELSE @]

\* Lines 602-610: the rook of a castling move, chosen by the side to move.
castleRook(e, move) ==
  IF ~move.isCastle THEN e
  ELSE moveRookHash(e,
         IF e.turn = "w" THEN (IF move.castleSide = "K" THEN 63 ELSE 56)
         ELSE (IF move.castleSide = "K" THEN 7 ELSE 0),
         IF e.turn = "w" THEN (IF move.castleSide = "K" THEN 61 ELSE 59)
         ELSE (IF move.castleSide = "K" THEN 5 ELSE 3),
         IF e.turn = "w" THEN "R" ELSE "r")

\* An en passant target left by every move.
epAfterAnyMove(move) == (move.to + move.from) \div 2

\* Lines 614-615: the en passant target a double pawn step leaves.
epAfter(move) ==
  IF toLowerCase(move.piece) = "p" /\ abs(move.to - move.from) = 16
    THEN (move.to + move.from) \div 2
    ELSE NoSq

\* A halfmove clock that no move resets.
halfmoveRuns(e, move, captured) == e.halfmove + 1

\* Lines 621-623: the halfmove clock after the move.
halfmoveAfter(e, move, captured) ==
  IF toLowerCase(move.piece) = "p" \/ captured # null THEN 0 ELSE e.halfmove + 1

\* Lines 612-627: rights, en passant target, clocks, side to move, hash.
setState(e, move, captured, castling, ep) ==
  [e EXCEPT !.castling = castling,
            !.ep = ep,
            !.halfmove = halfmoveAfter(e, move, captured),
            !.fullmove = IF e.turn = "b" THEN @ + 1 ELSE @,
            !.turn = opponent(e.turn),
            !.hash = Xor(XorIf(Xor(@, ZCastle(castleMaskFromRights(castling))),
                               ep # NoSq, ZEpFile(fileOf(ep))),
                         ZSide)]

finishMove(e, move, captured) ==
  setState(e, move, captured,
           updateCastlingRightsAfterMove(e.castling, move.from, move.to,
                                         move.piece, captured),
           epAfter(move))

\* The calls of an engine that is watched: `made` holds, oldest first, the
\* makeMove calls (line 556) not yet reverted, each with the undo record it
\* has returned and its trackHistory; `strayed` tells that some unmakeMove
\* (line 670) was given another record or flag than those of the latest of
\* them.  An engine without these fields is not watched.
watched(e) == "made" \in DOMAIN e

watch(e) ==
  [board |-> e.board, turn |-> e.turn, castling |-> e.castling, ep |-> e.ep,
   halfmove |-> e.halfmove, fullmove |-> e.fullmove, wKing |-> e.wKing,
   bKing |-> e.bKing, hash |-> e.hash, rep |-> e.rep, hashLine |-> e.hashLine,
   made |-> <<>>, strayed |-> FALSE]

noteMade(after, e, move, trackHistory) ==
  IF watched(e)
    THEN [after EXCEPT !.made = Append(@, [undo |-> undoOf(e, move),
                                          track |-> trackHistory])]
    ELSE after

noteUnmade(e, undo, trackHistory) ==
  IF watched(e)
    THEN [e EXCEPT !.strayed = \/ @
                              \/ Len(e.made) = 0
                              \/ e.made[Len(e.made)] # [undo |-> undo,
                                                        track |-> trackHistory],
                   !.made = IF Len(@) = 0 THEN @ ELSE SubSeq(@, 1, Len(@) - 1)]
    ELSE e

\* Lines 629-633: the new hash joins the hash line and the repetition map.
recordPosition(e, trackHistory) ==
  IF trackHistory
    THEN [e EXCEPT !.hashLine = Append(@, e.hash), !.rep = repBump(@, e.hash)]
    ELSE e

\* The engine after the call and the undo record returned.
makeMove(e, move, trackHistory) ==
  [eng |-> noteMade(recordPosition(
                      finishMove(
                        castleRook(
                          movePiece(e, move, capturedOf(e, move),
                                    IF move.isEnPassant THEN move.capturedIndex ELSE move.to,
                                    placedOf(e, move)),
                          move),
                        move, capturedOf(e, move)),
                      trackHistory),
                    e, move, trackHistory),
   undo |-> undoOf(e, move)]

\* unmakeMove, lines 670-718.

\* The same with the line left as long as it was.
forgetKeepsLine(e, cur) ==
  [e EXCEPT !.rep = IF cur <= 0 THEN repDelete(@, e.hash) ELSE repSet(@, e.hash, cur)]

\* Lines 671-677: the current hash leaves the repetition map and the line.
forgetPosition(e, cur) ==
  [e EXCEPT !.rep = IF cur <= 0 THEN repDelete(@, e.hash) ELSE repSet(@, e.hash, cur),
            !.hashLine = IF Len(@) = 0 THEN @ ELSE SubSeq(@, 1, Len(@) - 1)]

\* Lines 693-711: the rook of a castling move goes back, chosen by the
\* restored side to move.
rookBack(board, undo) ==
  IF ~undo.move.isCastle THEN board
  ELSE IF undo.prevTurn = "w"
    THEN (IF undo.move.castleSide = "K"
            THEN [board EXCEPT ![63] = "R", ![61] = null]
            ELSE [board EXCEPT ![56] = "R", ![59] = null])
    ELSE (IF undo.move.castleSide = "K"
            THEN [board EXCEPT ![7] = "r", ![5] = null]
            ELSE [board EXCEPT ![0] = "r", ![3] = null])

\* Lines 689-691 and 713-717: the piece goes back, the target is cleared,
\* the captured piece returns.
restoreBoard(board, undo, capSq) ==
  [rookBack([board EXCEPT ![undo.move.from] = undo.move.piece], undo)
     EXCEPT ![undo.move.to] = null,
            ![capSq] = IF undo.captured # null THEN undo.captured ELSE @]

unmakeMove(e, undo, trackHistory) ==
  [(IF trackHistory THEN forgetPosition(noteUnmade(e, undo, trackHistory),
                                        repGet(e.rep, e.hash) - 1)
    ELSE noteUnmade(e, undo, trackHistory))
     EXCEPT !.turn = undo.prevTurn,
            !.castling = undo.prevCastling,
            !.ep = undo.prevEp,
            !.halfmove = undo.prevHalfmove,
            !.fullmove = undo.prevFullmove,
            !.hash = undo.prevHash,
            !.wKing = undo.prevWKing,
            !.bKing = undo.prevBKing,
            !.board = restoreBoard(e.board, undo,
                                   IF undo.move.isEnPassant THEN undo.move.capturedIndex
                                   ELSE undo.move.to)]

\* generateLegalMoves, lines 544-554: every pseudo-legal move is tried on the
\* live engine and reverted; the result is the engine after the call and the
\* moves kept.
\* Statements run in order: the first half of a loop is computed before the
\* second half starts.
evaluated(x) == x = x

\* The same trial with the unmaking call tracking history.
tryMoveTracked(r, color, move, made) ==
  [eng |-> unmakeMove(made.eng, made.undo, TRUE),
   moves |-> IF ~inCheck(made.eng, color) THEN Append(r.moves, move) ELSE r.moves]

\* Lines 547-551: the move is made, kept when the mover's king is not
\* attacked, and taken back.
tryMove(r, color, move, made) ==
  [eng |-> unmakeMove(made.eng, made.undo, FALSE),
   moves |-> IF ~inCheck(made.eng, color) THEN Append(r.moves, move) ELSE r.moves]

\* r is [eng, moves]: the live engine and the moves kept so far; the loop
\* runs over pseudo[lo..hi], split in halves.
RECURSIVE legalFilter(_, _, _, _, _)
legalFilter(r, color, pseudo, lo, hi) ==
  IF lo > hi THEN r
  ELSE IF lo = hi
    THEN tryMove(r, color, pseudo[lo], makeMove(r.eng, pseudo[lo], FALSE))
  ELSE LET mid == (lo + hi) \div 2
           left == legalFilter(r, color, pseudo, lo, mid)
       IN IF evaluated(left) THEN legalFilter(left, color, pseudo, mid + 1, hi)
          ELSE left

generateLegalMoves(e, color) ==
  LET pseudo == generatePseudoMoves(e, color)
  IN legalFilter([eng |-> e, moves |-> <<>>], color, pseudo, 1, Len(pseudo))

\* getRepetitionCount, lines 720-722.
getRepetitionCount(e) == repGet(e.rep, e.hash)

\* A test that lets a lone bishop or knight, and nothing more, be too little.
isInsufficientLoneMinor(e) ==
  /\ \A i \in Squares : toLowerCase(e.board[i]) \notin {"p", "q", "r"}
  /\ Cardinality({i \in Squares : toLowerCase(e.board[i]) \in {"b", "n"}}) <= 1

\* isInsufficientMaterial, lines 724-750.
isInsufficientMaterial(e) ==
  LET count(p) == Cardinality({i \in Squares : e.board[i] = p})
      whiteB == count("B")
      whiteN == count("N")
      blackB == count("b")
      blackN == count("n")
      whiteCanMate == whiteB >= 2 \/ (whiteB >= 1 /\ whiteN >= 1) \/ whiteN >= 3
      blackCanMate == blackB >= 2 \/ (blackB >= 1 /\ blackN >= 1) \/ blackN >= 3
  IN /\ \A i \in Squares : toLowerCase(e.board[i]) \notin {"p", "q", "r"}
     /\ ~whiteCanMate
     /\ ~blackCanMate

\* getGameResult, lines 752-763: the engine after the call and the result.
Result(e, over, result, winner) ==
  [eng |-> e, over |-> over, result |-> result, winner |-> winner]

\* A classification that tests the draw rules before the legal moves.
resultDrawsFirst(e, noMoves) ==
  IF e.halfmove >= 100 THEN Result(e, TRUE, "fifty-move", null)
  ELSE IF getRepetitionCount(e) >= 3 THEN Result(e, TRUE, "threefold", null)
  ELSE IF isInsufficientMaterial(e) THEN Result(e, TRUE, "insufficient", null)
  ELSE IF ~noMoves THEN Result(e, FALSE, null, null)
  ELSE IF inCheck(e, e.turn) THEN Result(e, TRUE, "checkmate", opponent(e.turn))
  ELSE Result(e, TRUE, "stalemate", null)

\* Lines 754-762, on the engine generateLegalMoves has left.
resultOf(e, noMoves) ==
  IF noMoves
    THEN IF inCheck(e, e.turn) THEN Result(e, TRUE, "checkmate", opponent(e.turn))
         ELSE Result(e, TRUE, "stalemate", null)
  ELSE IF e.halfmove >= 100 THEN Result(e, TRUE, "fifty-move", null)
  ELSE IF getRepetitionCount(e) >= 3 THEN Result(e, TRUE, "threefold", null)
  ELSE IF isInsufficientMaterial(e) THEN Result(e, TRUE, "insufficient", null)
  ELSE Result(e, FALSE, null, null)

resultAfter(legal) == resultOf(legal.eng, Len(legal.moves) = 0)

getGameResult(e) == resultAfter(generateLegalMoves(e, e.turn))

\* ------------------------------------------------------- evaluator, search

\* PIECE_VALUES, lines 21-28.
PIECE_VALUES(t) ==
  CASE t = "p" -> 100 [] t = "n" -> 320 [] t = "b" -> 330
    [] t = "r" -> 500 [] t = "q" -> 900 [] OTHER -> 0

\* PST, lines 30-93 (index 0 is the first entry of each table).
PSTpawn ==
  << 0, 0, 0, 0, 0, 0, 0, 0,
     50, 50, 50, 50, 50, 50, 50, 50,
     10, 10, 20, 30, 30, 20, 10, 10,
     5, 5, 10, 25, 25, 10, 5, 5,
     0, 0, 0, 20, 20, 0, 0, 0,
     5, -5, -10, 0, 0, -10, -5, 5,
     5, 10, 10, -20, -20, 10, 10, 5,
     0, 0, 0, 0, 0, 0, 0, 0 >>

PSTknight ==
  << -50, -40, -30, -30, -30, -30, -40, -50,
     -40, -20, 0, 0, 0, 0, -20, -40,
     -30, 0, 10, 15, 15, 10, 0, -30,
     -30, 5, 15, 20, 20, 15, 5, -30,
     -30, 0, 15, 20, 20, 15, 0, -30,
     -30, 5, 10, 15, 15, 10, 5, -30,
     -40, -20, 0, 5, 5, 0, -20, -40,
     -50, -40, -30, -30, -30, -30, -40, -50 >>

PSTbishop ==
  << -20, -10, -10, -10, -10, -10, -10, -20,
     -10, 0, 0, 0, 0, 0, 0, -10,
     -10, 0, 5, 10, 10, 5, 0, -10,
     -10, 5, 5, 10, 10, 5, 5, -10,
     -10, 0, 10, 10, 10, 10, 0, -10,
     -10, 10, 10, 10, 10, 10, 10, -10,
     -10, 5, 0, 0, 0, 0, 5, -10,
     -20, -10, -10, -10, -10, -10, -10, -20 >>

PSTrook ==
  << 0, 0, 0, 0, 0, 0, 0, 0,
     5, 10, 10, 10, 10, 10, 10, 5,
     -5, 0, 0, 0, 0, 0, 0, -5,
     -5, 0, 0, 0, 0, 0, 0, -5,
     -5, 0, 0, 0, 0, 0, 0, -5,
     -5, 0, 0, 0, 0, 0, 0, -5,
     -5, 0, 0, 0, 0, 0, 0, -5,
     0, 0, 0, 5, 5, 0, 0, 0 >>

PSTqueen ==
  << -20, -10, -10, -5, -5, -10, -10, -20,
     -10, 0, 0, 0, 0, 0, 0, -10,
     -10, 0, 5, 5, 5, 5, 0, -10,
     -5, 0, 5, 5, 5, 5, 0, -5,
     0, 0, 5, 5, 5, 5, 0, -5,
     -10, 5, 5, 5, 5, 5, 0, -10,
     -10, 0, 5, 0, 0, 0, 0, -10,
     -20, -10, -10, -5, -5, -10, -10, -20 >>

PSTkingMid ==
  << -30, -40, -40, -50, -50, -40, -40, -30,
     -30, -40, -40, -50, -50, -40, -40, -30,
     -30, -40, -40, -50, -50, -40, -40, -30,
     -30, -40, -40, -50, -50, -40, -40, -30,
     -20, -30, -30, -40, -40, -30, -30, -20,
     -10, -20, -20, -20, -20, -20, -20, -10,
     20, 20, 0, 0, 0, 0, 20, 20,
     20, 30, 10, 0, 0, 10, 30, 20 >>

PST(t) ==
  CASE t = "p" -> PSTpawn [] t = "n" -> PSTknight [] t = "b" -> PSTbishop
    [] t = "r" -> PSTrook [] t = "q" -> PSTqueen [] t = "k" -> PSTkingMid

\* The value of the piece p of type t on square i, lines 769-791.
pieceScore(p, t, i, perspectiveColor) ==
  (IF colorOf(p) = perspectiveColor THEN 1 ELSE -1)
    * (PIECE_VALUES(t) + PST(t)[(IF colorOf(p) = "w" THEN i ELSE 63 - i) + 1])

squareScore(board, i, perspectiveColor) ==
  IF board[i] = null THEN 0
  ELSE pieceScore(board[i], toLowerCase(board[i]), i, perspectiveColor)

\* The for loop of evaluate over the squares lo..hi, lines 768-792.
RECURSIVE materialScore(_, _, _, _)
materialScore(board, perspectiveColor, lo, hi) ==
  IF lo = hi THEN squareScore(board, lo, perspectiveColor)
  ELSE materialScore(board, perspectiveColor, lo, (lo + hi) \div 2)
         + materialScore(board, perspectiveColor, (lo + hi) \div 2 + 1, hi)

\* evaluate, lines 766-796: the engine after the call and the score.
\* Line 793: the mobility term, from the two move lists.
evaluateMobility(score, mine, theirs) ==
  [eng |-> theirs.eng,
   score |-> score + clamp(Len(mine.moves) - Len(theirs.moves), -20, 20) * 2]

evaluateTheirs(score, mine, perspectiveColor) ==
  evaluateMobility(score, mine,
                   generateLegalMoves(mine.eng, opponent(perspectiveColor)))

evaluate(e, perspectiveColor) ==
  evaluateTheirs(materialScore(e.board, perspectiveColor, 0, 63),
                 generateLegalMoves(e, perspectiveColor), perspectiveColor)

\* The sort key of orderMoves, lines 799-804.
orderScore(m) ==
  (IF m.promotion # null THEN 900 ELSE 0)
    + (IF m.captured # null \/ m.isEnPassant
         THEN PIECE_VALUES(toLowerCase(m.captured)) * 10
                - PIECE_VALUES(toLowerCase(m.piece))
         ELSE 0)

\* orderMoves, lines 798-807: a stable sort of a copy by descending key; a
\* move goes after the moves of greater key and the earlier moves of its key.
orderMoves(moves) ==
  LET n == Len(moves)
      key == [i \in 1..n |-> orderScore(moves[i])]
      before(i) == {j \in 1..n : key[j] > key[i] \/ (key[j] = key[i] /\ j < i)}
      place == [i \in 1..n |-> Cardinality(before(i)) + 1]
  IN [k \in 1..n |-> moves[CHOOSE i \in 1..n : place[i] = k]]

\* performance.now() - start > timeLimit: the clock is modelled by the number
\* of reads that still find the search within its limit (ticks); time does
\* not run backwards, so once a read is late every later read is late.
timeUp(s) == s.ticks = 0

\* if (score > best) best = score
greater(score, best) == IF score > best THEN score ELSE best

\* negamax, lines 828-856.  s is [eng, ticks]; the result is
\* [eng, ticks, aborted, score].
Return(eng, ticks, aborted, score) ==
  [eng |-> eng, ticks |-> ticks, aborted |-> aborted, score |-> score]

RECURSIVE negamax(_, _, _, _, _, _)

\* A loop that is left while its window is still open by a pawn.
cutoffEarly(alpha, beta) == alpha + 100 >= beta

\* Line 852: if (alpha >= beta) break
cutoff(alpha, beta) == alpha >= beta

\* Lines 846-852 for one move m: L is [eng, ticks, aborted, stop, alpha,
\* best], stop meaning the loop was left; back is the engine after
\* unmakeMove, res the result of the recursive call.
loopAfter(L, back, res, beta) ==
  IF res.aborted
    THEN [L EXCEPT !.eng = back, !.ticks = res.ticks, !.aborted = TRUE, !.stop = TRUE]
    ELSE [eng |-> back, ticks |-> res.ticks, aborted |-> FALSE,
          stop |-> cutoff(greater(-res.score, L.alpha), beta),
          alpha |-> greater(-res.score, L.alpha),
          best |-> greater(-res.score, L.best)]

loopResult(L, undo, res, beta) ==
  loopAfter(L, unmakeMove(res.eng, undo, FALSE), res, beta)

\* Lines 843-845: the move is made and searched.
loopMove(L, made, depth, beta, perspective, maxDepth) ==
  loopResult(L, made.undo,
             negamax([eng |-> made.eng, ticks |-> L.ticks], depth - 1,
                     -beta, -L.alpha, perspective, maxDepth),
             beta)

\* The for loop of negamax over moves[lo..hi], split in halves.
RECURSIVE negamaxLoop(_, _, _, _, _, _, _, _)
negamaxLoop(L, moves, lo, hi, depth, beta, perspective, maxDepth) ==
  IF L.stop \/ lo > hi THEN L
  ELSE IF lo = hi
    THEN loopMove(L, makeMove(L.eng, moves[lo], FALSE), depth, beta,
                  perspective, maxDepth)
  ELSE negamaxLoop(negamaxLoop(L, moves, lo, (lo + hi) \div 2, depth, beta,
                               perspective, maxDepth),
                   moves, (lo + hi) \div 2 + 1, hi, depth, beta, perspective,
                   maxDepth)

\* Line 854: the score returned after the loop.
loopScore(L) == Return(L.eng, L.ticks, L.aborted, IF L.aborted THEN 0 ELSE L.best)

\* Lines 840-842: the ordered moves of the node.
negamaxMoves(ticks, eng, moves, depth, alpha, beta, perspective, maxDepth) ==
  loopScore(negamaxLoop([eng |-> eng, ticks |-> ticks, aborted |-> FALSE,
                         stop |-> FALSE, alpha |-> alpha, best |-> -Infinity],
                        moves, 1, Len(moves), depth, beta, perspective, maxDepth))

negamaxLegal(ticks, legal, depth, alpha, beta, perspective, maxDepth) ==
  negamaxMoves(ticks, legal.eng, orderMoves(legal.moves), depth, alpha, beta,
               perspective, maxDepth)

\* Line 838: the leaf.
negamaxLeaf(ticks, ev) == Return(ev.eng, ticks, FALSE, ev.score)

\* Lines 831-842 once the game result is known.
negamaxNode(ticks, result, depth, alpha, beta, perspective, maxDepth) ==
  IF result.over
    THEN IF result.result = "checkmate"
           THEN Return(result.eng, ticks, FALSE,
                       (IF result.eng.turn = perspective THEN -100000 ELSE 100000)
                         - (maxDepth - depth))
           ELSE Return(result.eng, ticks, FALSE, 0)
  ELSE IF depth = 0
    THEN negamaxLeaf(ticks, evaluate(result.eng, perspective))
  ELSE negamaxLegal(ticks, generateLegalMoves(result.eng, result.eng.turn),
                    depth, alpha, beta, perspective, maxDepth)

negamax(s, depth, alpha, beta, perspective, maxDepth) ==
  IF timeUp(s) THEN Return(s.eng, s.ticks, TRUE, 0)
  ELSE negamaxNode(s.ticks - 1, getGameResult(s.eng), depth, alpha, beta,
                   perspective, maxDepth)

\* The root moves of one depth, lines 862-875, over moves[lo..hi].
\* r is [eng, ticks, aborted, localBestMove, localBestScore].
rootAfter(r, move, back, res) ==
  IF res.aborted
    THEN [r EXCEPT !.eng = back, !.ticks = res.ticks, !.aborted = TRUE]
    ELSE [r EXCEPT !.eng = back, !.ticks = res.ticks,
                   !.localBestMove = IF -res.score > r.localBestScore THEN move ELSE @,
                   !.localBestScore = greater(-res.score, @)]

rootResult(r, move, undo, res) ==
  rootAfter(r, move, unmakeMove(res.eng, undo, FALSE), res)

rootMove(r, move, made, depth, perspective, maxDepth) ==
  rootResult(r, move, made.undo,
             negamax([eng |-> made.eng, ticks |-> r.ticks], depth - 1,
                     -Infinity, Infinity, perspective, maxDepth))

RECURSIVE rootLoop(_, _, _, _, _, _, _)
rootLoop(r, moves, lo, hi, depth, perspective, maxDepth) ==
  IF r.aborted \/ lo > hi THEN r
  ELSE IF lo = hi
    THEN rootMove(r, moves[lo], makeMove(r.eng, moves[lo], FALSE), depth,
                  perspective, maxDepth)
  ELSE rootLoop(rootLoop(r, moves, lo, (lo + hi) \div 2, depth, perspective,
                         maxDepth),
                moves, (lo + hi) \div 2 + 1, hi, depth, perspective, maxDepth)

\* The iterative deepening loop, lines 858-880.
\* d is [eng, ticks, bestMove, bestScore].
RECURSIVE deepen(_, _, _, _, _)

\* Lines 876-879: the best move of the depth replaces the best so far.
adoptBest(d, r, adopt) ==
  [eng |-> r.eng, ticks |-> r.ticks,
   bestMove |-> IF adopt THEN r.localBestMove ELSE d.bestMove,
   bestScore |-> IF adopt THEN r.localBestScore ELSE d.bestScore]

deepenAfter(d, r, legal, depth, perspective, maxDepth) ==
  IF r.aborted THEN adoptBest(d, r, r.localBestScore > d.bestScore)
  ELSE deepen(adoptBest(d, r, r.localBestScore > d.bestScore), legal, depth + 1,
              perspective, maxDepth)

deepenMoves(d, moves, legal, depth, perspective, maxDepth) ==
  deepenAfter(d,
              rootLoop([eng |-> d.eng, ticks |-> d.ticks - 1, aborted |-> FALSE,
                        localBestMove |-> d.bestMove, localBestScore |-> -Infinity],
                       moves, 1, Len(moves), depth, perspective, maxDepth),
              legal, depth, perspective, maxDepth)

deepen(d, legal, depth, perspective, maxDepth) ==
  IF depth > maxDepth THEN d
  ELSE IF timeUp(d) THEN d
  ELSE deepenMoves(d, orderMoves(legal), legal, depth, perspective, maxDepth)

\* findBestMove, lines 809-883: the engine after the call and the move
\* returned (null when there is none).  ticks is the clock of the search and
\* random is Math.random() in RandomLevels-ths.
RandomLevels == 4

\* Lines 814-818: a capture when there is one, else any legal move.
easyMove(pool, random) == pool[((random * Len(pool)) \div RandomLevels) + 1]

\* A pool that holds every legal move.
easyPoolAll(legal, captures) == legal

easyPool(legal, captures) == IF Len(captures) > 0 THEN captures ELSE legal

\* Line 882.
bestOf(d) == [eng |-> d.eng, move |-> d.bestMove]

findAmong(legal, color, difficulty, ticks, random) ==
  IF Len(legal.moves) = 0 THEN [eng |-> legal.eng, move |-> NullMove]
  ELSE IF difficulty = "easy"
    THEN [eng |-> legal.eng,
          move |-> easyMove(easyPool(legal.moves,
                                     SelectSeq(legal.moves,
                                               LAMBDA m : m.captured # null \/ m.isEnPassant)),
                            random)]
  ELSE bestOf(deepen([eng |-> legal.eng, ticks |-> ticks, bestMove |-> legal.moves[1],
                      bestScore |-> -Infinity],
                     legal.moves, 1, color, IF difficulty = "hard" THEN 4 ELSE 3))

\* A search that answers with the first pseudo-legal move.
findBestMovePseudo(e, difficulty, ticks, random) ==
  \* CHOOSE picks the one element of the singleton
  CHOOSE r \in {[eng |-> e,
                 move |-> IF pseudo = <<>> THEN NullMove ELSE pseudo[1]] :
                pseudo \in {generatePseudoMoves(e, e.turn)}} : TRUE

findBestMove(e, difficulty, ticks, random) ==
  findAmong(generateLegalMoves(e, e.turn), e.turn, difficulty, ticks, random)

\* ------------------------------------------------------------------ inputs

\* ChessEngine.START_FEN, line 188.
\* "rnbqkbnr/pppppppp/8/8/8/8/PPPPPPPP/RNBQKBNR w KQkq - 0 1"
START_FEN ==
  <<"r", "n", "b", "q", "k", "b", "n", "r", "/", "p", "p", "p", "p", "p",
    "p", "p", "p", "/", "8", "/", "8", "/", "8", "/", "8", "/", "P", "P",
    "P", "P", "P", "P", "P", "P", "/", "R", "N", "B", "Q", "K", "B", "N",
    "R", " ", "w", " ", "K", "Q", "k", "q", " ", "-", " ", "0", " ", "1">>

\* White may castle long, Black short; White's f1 bishop is at home; the
\* g3 and h4 pawns may take each other.
\* "4k2r/8/p7/8/7p/6P1/8/R3KB2 w Qk - 3 9"
FenCastle ==
  <<"4", "k", "2", "r", "/", "8", "/", "p", "7", "/", "8", "/", "7", "p",
    "/", "6", "P", "1", "/", "8", "/", "R", "3", "K", "B", "2", " ", "w",
    " ", "Q", "k", " ", "-", " ", "3", " ", "9">>

\* Black has just played d7-d5: White may capture en passant.
\* "4k3/8/8/3pP3/8/8/8/4K3 w - d6 0 2"
FenEnPassant ==
  <<"4", "k", "3", "/", "8", "/", "8", "/", "3", "p", "P", "3", "/", "8",
    "/", "8", "/", "8", "/", "4", "K", "3", " ", "w", " ", "-", " ", "d",
    "6", " ", "0", " ", "2">>

\* Both sides have a pawn one step from promotion.
\* "4k3/P7/8/8/8/8/p7/4K3 b - - 0 1"
FenPromotion ==
  <<"4", "k", "3", "/", "P", "7", "/", "8", "/", "8", "/", "8", "/", "8",
    "/", "p", "7", "/", "4", "K", "3", " ", "b", " ", "-", " ", "-", " ",
    "0", " ", "1">>

\* White's e2 bishop is pinned by the e7 rook.
\* "4k3/4r3/8/8/8/8/4B3/4K3 w - - 12 30"
FenPinned ==
  <<"4", "k", "3", "/", "4", "r", "3", "/", "8", "/", "8", "/", "8", "/",
    "8", "/", "4", "B", "3", "/", "4", "K", "3", " ", "w", " ", "-", " ",
    "-", " ", "1", "2", " ", "3", "0">>

\* King against king.
\* "k7/8/8/8/8/8/8/7K w - - 0 1"
FenKings ==
  <<"k", "7", "/", "8", "/", "8", "/", "8", "/", "8", "/", "8", "/", "8",
    "/", "7", "K", " ", "w", " ", "-", " ", "-", " ", "0", " ", "1">>

\* Accepted by loadFEN: the en passant target e6 holds White's own knight.
\* "k7/8/r3N1K1/3Pp3/8/8/P7/8 w - e6 0 1"
FenEpOccupied ==
  <<"k", "7", "/", "8", "/", "r", "3", "N", "1", "K", "1", "/", "3", "P",
    "p", "3", "/", "8", "/", "8", "/", "P", "7", "/", "8", " ", "w", " ",
    "-", " ", "e", "6", " ", "0", " ", "1">>

\* Accepted by loadFEN: the side not to move is in check.
\* "4k3/8/8/8/8/8/8/4RK2 w - - 0 1"
FenKingAttacked ==
  <<"4", "k", "3", "/", "8", "/", "8", "/", "8", "/", "8", "/", "8", "/",
    "8", "/", "4", "R", "K", "2", " ", "w", " ", "-", " ", "-", " ", "0",
    " ", "1">>

\* Accepted by loadFEN: two white kings.
\* "k7/8/8/8/8/8/8/6KK w - - 0 1"
FenTwoKings ==
  <<"k", "7", "/", "8", "/", "8", "/", "8", "/", "8", "/", "8", "/",
    "8", "/", "6", "K", "K", " ", "w", " ", "-", " ", "-", " ", "0",
    " ", "1">>

\* Black is checkmated.
\* "7k/6Q1/5K2/8/8/8/8/8 b - - 0 1"
FenCheckmate ==
  <<"7", "k", "/", "6", "Q", "1", "/", "5", "K", "2", "/", "8", "/", "8",
    "/", "8", "/", "8", "/", "8", " ", "b", " ", "-", " ", "-", " ", "0",
    " ", "1">>

\* Black is stalemated.
\* "7k/5Q2/6K1/8/8/8/8/8 b - - 0 1"
FenStalemate ==
  <<"7", "k", "/", "5", "Q", "2", "/", "6", "K", "1", "/", "8", "/", "8",
    "/", "8", "/", "8", "/", "8", " ", "b", " ", "-", " ", "-", " ", "0",
    " ", "1">>

\* A position string from its six fields.
Fen(placement, turn, castling, ep, halfmove, fullmove) ==
  joinWith(<<placement, turn, castling, ep, halfmove, fullmove>>, " ")

PlacementKings == <<"k", "7", "/", "8", "/", "8", "/", "8", "/", "8", "/", "8", "/", "8", "/", "7", "K">>

\* Strings loadFEN is given that are not position strings.
FenFewFields == <<"8", "/", "8", " ", "w", " ", "-">>
FenSevenRanks == Fen(<<"k", "7", "/", "8", "/", "8", "/", "8", "/", "8", "/", "8", "/", "7", "K">>,
                     <<"w">>, <<"-">>, <<"-">>, <<"0">>, <<"1">>)
FenShortRank == Fen(<<"k", "7", "/", "8", "/", "8", "/", "8", "/", "8", "/", "8", "/", "8", "/", "6", "K">>,
                    <<"w">>, <<"-">>, <<"-">>, <<"0">>, <<"1">>)
FenLongRank == Fen(<<"k", "7", "/", "8", "/", "8", "/", "8", "/", "8", "/", "8", "/", "8", "/", "8", "K">>,
                   <<"w">>, <<"-">>, <<"-">>, <<"0">>, <<"1">>)
FenBadPiece == Fen(<<"k", "7", "/", "8", "/", "8", "/", "8", "/", "8", "/", "8", "/", "8", "/", "6", "x", "K">>,
                   <<"w">>, <<"-">>, <<"-">>, <<"0">>, <<"1">>)
FenNoWhiteKing == Fen(<<"k", "7", "/", "8", "/", "8", "/", "8", "/", "8", "/", "8", "/", "8", "/", "7", "Q">>,
                      <<"w">>, <<"-">>, <<"-">>, <<"0">>, <<"1">>)
FenNoBlackKing == Fen(<<"q", "7", "/", "8", "/", "8", "/", "8", "/", "8", "/", "8", "/", "8", "/", "7", "K">>,
                      <<"w">>, <<"-">>, <<"-">>, <<"0">>, <<"1">>)
FenBadTurn == Fen(PlacementKings, <<"x">>, <<"-">>, <<"-">>, <<"0">>, <<"1">>)
FenBadCastling == Fen(PlacementKings, <<"b">>, <<"K", "x">>, <<"-">>, <<"0">>, <<"1">>)
FenBadEnPassant == Fen(PlacementKings, <<"b">>, <<"-">>, <<"e", "9">>, <<"0">>, <<"1">>)
FenShortEnPassant == Fen(PlacementKings, <<"b">>, <<"q">>, <<"e">>, <<"0">>, <<"1">>)
\* An en passant token that begins like a square and goes on.
FenLongEnPassant == Fen(PlacementKings, <<"b">>, <<"-">>, <<"e", "3", "x">>, <<"0">>, <<"1">>)
\* Clocks that are not numbers in range: the defaults 0 and 1 are taken.
FenBadClocks == Fen(PlacementKings, <<"w">>, <<"-">>, <<"-">>, <<"-", "4">>, <<"x">>)

ValidFens ==
  {START_FEN, FenCastle, FenEnPassant, FenPromotion, FenPinned, FenKings,
   FenEpOccupied, FenKingAttacked, FenTwoKings, FenCheckmate, FenStalemate,
   FenBadClocks}

MalformedFens ==
  {FenFewFields, FenSevenRanks, FenShortRank, FenLongRank, FenBadPiece,
   FenNoWhiteKing, FenNoBlackKing, FenBadTurn, FenBadCastling,
   FenBadEnPassant, FenShortEnPassant, FenLongEnPassant}

FenInputs == ValidFens \cup MalformedFens

Colors == {"w", "b"}

Difficulties == {"easy", "medium", "hard"}

\* The most moves made and not yet unmade.
MaxPly == 2
\* The most clock reads that find a search within its time limit.
MaxTicks == 12
\* The clocks tried: none, a few, the most reads within the limit.
TickChoices == {0, 2, MaxTicks}
\* The most calls of loadFEN and of findBestMove in a run, the most engine
\* operations of a run and the most events the page handles in a run.
MaxLoads == 1
MaxSearches == 1
MaxOps == 4
MaxEvents == 4

\* ------------------------------------------------------------ state machine

VARIABLES
  engine,     \* the ChessEngine instance (ui.engine)
  history,    \* the moves made and not yet unmade, with their undo records
  redo,       \* ui.redo
  ui,         \* ui.mode, ui.humanSide, ui.difficulty, whether ui.aiTimer is set
  calls,      \* the operations so far: loadFEN calls, findBestMove calls, all
  last        \* the last operation: its name, the engine before it, its result

vars == <<engine, history, redo, ui, calls, last>>

\* new ChessEngine(), lines 190-203.
NewEngine ==
  loadFEN([board |-> EmptyBoard, turn |-> "w",
           castling |-> [K |-> TRUE, Q |-> TRUE, k |-> TRUE, q |-> TRUE],
           ep |-> NoSq, halfmove |-> 0, fullmove |-> 1, wKing |-> 60, bKing |-> 4,
           hash |-> {}, rep |-> <<>>, hashLine |-> <<>>], START_FEN).eng

\* pre is the engine the operation was called on, prev the operation before
\* it; base is the engine before the move that an undo takes back was made,
\* or before the undo that a redo reverts.
OpRecord(name, pre, prev) ==
  [op |-> name, prev |-> prev, pre |-> pre, base |-> pre, err |-> "", fen |-> <<>>,
   color |-> null, moves |-> <<>>, move |-> NullMove, score |-> 0, track |-> FALSE,
   over |-> FALSE, result |-> null, winner |-> null, answer |-> FALSE, depth |-> 0,
   difficulty |-> null, ticks |-> 0, random |-> 0, aborted |-> FALSE,
   perspective |-> null, maxDepth |-> 0, index |-> NoSq, ordered |-> <<>>]

Op(name, pre) == OpRecord(name, pre, last.op)

\* The modes of the page, lines 1190-1202.
Modes == {"hvh", "hvc", "cvc"}

Init ==
  /\ engine = NewEngine
  /\ history = <<>>
  /\ redo = <<>>
  /\ ui = [mode |-> "hvh", humanSide |-> "w", difficulty |-> "medium", aiTimer |-> FALSE]
  /\ calls = [loads |-> 0, searches |-> 0, ops |-> 0]
  /\ last = OpRecord("new", NewEngine, "new")

\* The elements of a move list.
moveSet(moves) == {moves[i] : i \in 1..Len(moves)}

\* The moves the latest call has returned for the side to move.
offered ==
  IF last.op = "generateLegalMoves" /\ last.color = engine.turn
    THEN {last.moves[i] : i \in 1..Len(last.moves)}
  ELSE IF last.op = "findBestMove" /\ last.move # NullMove THEN {last.move}
  ELSE {}

\* engine.loadFEN(fen) by a caller that keeps its undo records only while the
\* position they belong to is loaded.
LoadFEN(fen) ==
  /\ calls.ops < MaxOps /\ calls.loads < MaxLoads
  /\ \E res \in {loadFEN(engine, fen)} :
       /\ engine' = res.eng
       /\ history' = IF res.err = "" THEN <<>> ELSE history
       /\ last' = [Op("loadFEN", engine) EXCEPT !.err = res.err, !.fen = fen]
  /\ calls' = [calls EXCEPT !.loads = @ + 1, !.ops = @ + 1]
  /\ UNCHANGED <<redo, ui>>

\* engine.makeMove(m, {trackHistory}) of a move the latest call has returned.
MakeMove(m, trackHistory) ==
  /\ calls.ops < MaxOps /\ Len(history) < MaxPly
  /\ m \in offered
  /\ \E made \in {makeMove(engine, m, trackHistory)} :
       /\ engine' = made.eng
       /\ history' = Append(history, [move |-> m, undo |-> made.undo,
                                      track |-> trackHistory,
                                      pre |-> engine, post |-> made.eng])
  /\ last' = [Op("makeMove", engine) EXCEPT !.move = m, !.track = trackHistory]
  /\ calls' = [calls EXCEPT !.ops = @ + 1]
  /\ UNCHANGED <<redo, ui>>

\* engine.unmakeMove(undo, {trackHistory}) of the latest move not yet unmade.
UnmakeMove ==
  /\ calls.ops < MaxOps /\ Len(history) > 0
  /\ \E top \in {history[Len(history)]} :
       /\ engine' = unmakeMove(engine, top.undo, top.track)
       /\ last' = [Op("unmakeMove", engine) EXCEPT !.base = top.pre, !.move = top.move,
                                                   !.track = top.track]
  /\ history' = SubSeq(history, 1, Len(history) - 1)
  /\ calls' = [calls EXCEPT !.ops = @ + 1]
  /\ UNCHANGED <<redo, ui>>

GenerateLegalMoves(color) ==
  /\ calls.ops < MaxOps
  /\ \E res \in {generateLegalMoves(engine, color)} :
       /\ engine' = res.eng
       /\ last' = [Op("generateLegalMoves", engine) EXCEPT !.color = color,
                                                           !.moves = res.moves]
  /\ calls' = [calls EXCEPT !.ops = @ + 1]
  /\ UNCHANGED <<history, redo, ui>>

Evaluate(perspectiveColor) ==
  /\ calls.ops < MaxOps
  /\ \E res \in {evaluate(engine, perspectiveColor)} :
       /\ engine' = res.eng
       /\ last' = [Op("evaluate", engine) EXCEPT !.color = perspectiveColor,
                                                 !.score = res.score]
  /\ calls' = [calls EXCEPT !.ops = @ + 1]
  /\ UNCHANGED <<history, redo, ui>>

\* findBestMove(engine, difficulty): the clock matters to the searching
\* levels only, Math.random() to "easy" only.
FindBestMove(difficulty, ticks, random) ==
  /\ calls.ops < MaxOps /\ calls.searches < MaxSearches
  /\ IF difficulty = "easy" THEN ticks = 0 ELSE random = 0
  /\ \E res \in {findBestMove(engine, difficulty, ticks, random)} :
       /\ engine' = res.eng
       /\ last' = [Op("findBestMove", engine) EXCEPT !.move = res.move,
                                                     !.difficulty = difficulty,
                                                     !.ticks = ticks,
                                                     !.random = random]
  /\ calls' = [calls EXCEPT !.searches = @ + 1, !.ops = @ + 1]
  /\ UNCHANGED <<history, redo, ui>>

EngineNext ==
  \/ \E fen \in FenInputs : LoadFEN(fen)
  \/ \E m \in offered, t \in BOOLEAN : MakeMove(m, t)
  \/ UnmakeMove
  \/ \E c \in Colors : GenerateLegalMoves(c)
  \/ \E c \in Colors : Evaluate(c)

EngineSpec == Init /\ [][EngineNext]_vars

SearchNext ==
  \/ \E fen \in FenInputs : LoadFEN(fen)
  \/ \E d \in Difficulties, t \in TickChoices, r \in 0..(RandomLevels - 1) :
       FindBestMove(d, t, r)
  \/ \E m \in offered : MakeMove(m, TRUE)

SearchSpec == Init /\ [][SearchNext]_vars

\* ----------------------------------------------------------------- the page

\* isHumanToMove and isComputerToMove, lines 1190-1202.
isHumanToMove(e, u) ==
  IF u.mode = "hvh" THEN TRUE
  ELSE IF u.mode = "hvc" THEN e.turn = u.humanSide
  ELSE FALSE

isComputerToMove(e, u) ==
  IF u.mode = "hvh" THEN FALSE
  ELSE IF u.mode = "hvc" THEN e.turn # u.humanSide
  ELSE u.mode = "cvc"

\* renderAll, lines 1181-1188: updateStatus asks the engine for the result.
renderAll(e) == getGameResult(e).eng

\* maybeStartAI, lines 1229-1242: the engine after it and whether the timer
\* is set.
aiAfter(result, u) ==
  [eng |-> result.eng, aiTimer |-> ~result.over /\ isComputerToMove(result.eng, u)]

maybeStartAI(e, u) == aiAfter(getGameResult(e), u)

\* applyMove, lines 1244-1261: [eng, history, redo, aiTimer, err].  computeSAN
\* loads the exported position into an engine of its own (lines 926-928); when
\* that throws, applyMove ends there.

\* Lines 1257-1260.
applyDone(h, ai, fromUI) ==
  [eng |-> IF fromUI THEN getGameResult(ai.eng).eng ELSE ai.eng,
   history |-> h, redo |-> <<>>, aiTimer |-> ai.aiTimer, err |-> ""]

\* Lines 1248-1256.
applyMade(e, made, h, u, move, fromUI) ==
  applyDone(Append(h, [move |-> move, undo |-> made.undo, track |-> TRUE,
                       pre |-> e, post |-> made.eng]),
            maybeStartAI(renderAll(made.eng), u), fromUI)

\* Line 1247, err being what computeSAN's loadFEN has thrown.
applySan(e, err, h, r, u, move, fromUI) ==
  IF err # ""
    THEN [eng |-> e, history |-> h, redo |-> r, aiTimer |-> FALSE, err |-> err]
    ELSE applyMade(e, makeMove(e, move, TRUE), h, u, move, fromUI)

\* Line 1246 has run: e is the engine generateLegalMoves has left.
applyLegal(e, h, r, u, move, fromUI) ==
  applySan(e, loadFEN(NewEngine, toFEN(e)).err, h, r, u, move, fromUI)

applyMove(e, h, r, u, move, fromUI) ==
  applyLegal(generateLegalMoves(e, e.turn).eng, h, r, u, move, fromUI)

\* The click handler of fenApplyBtn, lines 1468-1487:
\* [eng, history, redo, aiTimer, err].
fenShown(ai) ==
  [eng |-> ai.eng, history |-> <<>>, redo |-> <<>>, aiTimer |-> ai.aiTimer,
   err |-> ""]

fenLoaded(res, h, r, u) ==
  IF res.err # ""
    THEN [eng |-> res.eng, history |-> h, redo |-> r, aiTimer |-> FALSE,
          err |-> res.err]
    ELSE fenShown(maybeStartAI(renderAll(res.eng), u))

fenApply(e, h, r, u, fen) == fenLoaded(loadFEN(e, fen), h, r, u)

\* The position strings typed into the dialog.
UiStartFens == {FenCastle, FenEnPassant, FenPromotion, FenEpOccupied, FenKingAttacked}

\* The page of lines 1028-1048 and 1537-1540, a human with the white pieces
\* against the computer, once a position has been applied through the dialog.
UiInit ==
  \E fen \in UiStartFens :
    \E u \in {[mode |-> "hvc", humanSide |-> "w", difficulty |-> "medium",
               aiTimer |-> FALSE]} :
      \E res \in {fenApply(NewEngine, <<>>, <<>>, u, fen)} :
        /\ engine = res.eng
        /\ history = res.history
        /\ redo = res.redo
        /\ ui = [u EXCEPT !.aiTimer = res.aiTimer]
        /\ calls = [loads |-> 0, searches |-> 0, ops |-> 0]
        /\ last = [OpRecord("fenApply", NewEngine, "new") EXCEPT !.fen = fen]

\* Two clicks of handleSquareActivate, lines 1332-1371: the first selects a
\* piece and asks for its legal moves, the second picks one of them (through
\* the promotion picker, lines 1306-1330, when it promotes).
ClickMove ==
  /\ calls.ops < MaxEvents /\ Len(history) < MaxPly
  /\ isHumanToMove(engine, ui)
  /\ \E selected \in {generateLegalMoves(engine, engine.turn)} :
       \E i \in 1..Len(selected.moves) :
         \E res \in {applyMove(selected.eng, history, redo, ui,
                               selected.moves[i], TRUE)} :
           /\ engine' = res.eng
           /\ history' = res.history
           /\ redo' = res.redo
           /\ ui' = [ui EXCEPT !.aiTimer = res.aiTimer]
           /\ last' = [Op("applyMove", engine) EXCEPT !.move = selected.moves[i],
                                                      !.err = res.err]
  /\ calls' = [calls EXCEPT !.ops = @ + 1]

\* Lines 1238-1240: a promotion of the computer is a queen.
aiPromotion(move) == [move EXCEPT !.promotion = IF @ # null THEN "q" ELSE @]

\* The callback of ui.aiTimer, lines 1235-1241.
AiTimer(ticks, random) ==
  /\ calls.ops < MaxEvents /\ Len(history) < MaxPly
  /\ calls.searches < MaxSearches
  /\ ui.aiTimer
  /\ IF ui.difficulty = "easy" THEN ticks = 0 ELSE random = 0
  /\ \E best \in {findBestMove(engine, ui.difficulty, ticks, random)} :
       IF best.move = NullMove
         THEN /\ engine' = best.eng
              /\ ui' = [ui EXCEPT !.aiTimer = FALSE]
              /\ last' = Op("aiMove", engine)
              /\ UNCHANGED <<history, redo>>
         ELSE \E res \in {applyMove(best.eng, history, redo, ui,
                                    aiPromotion(best.move), FALSE)} :
                /\ engine' = res.eng
                /\ history' = res.history
                /\ redo' = res.redo
                /\ ui' = [ui EXCEPT !.aiTimer = res.aiTimer]
                /\ last' = [Op("aiMove", engine) EXCEPT !.move = aiPromotion(best.move),
                                                        !.err = res.err]
  /\ calls' = [calls EXCEPT !.searches = @ + 1, !.ops = @ + 1]

\* undoMove, lines 1263-1275; its button is disabled while ui.history is
\* empty (line 1186).
UndoMove ==
  /\ calls.ops < MaxEvents
  /\ Len(history) > 0
  /\ \E top \in {history[Len(history)]} :
       \E ai \in {maybeStartAI(renderAll(unmakeMove(engine, top.undo, TRUE)), ui)} :
         /\ engine' = ai.eng
         /\ history' = SubSeq(history, 1, Len(history) - 1)
         /\ redo' = Append(redo, [top EXCEPT !.post = engine])
         /\ ui' = [ui EXCEPT !.aiTimer = ai.aiTimer]
         /\ last' = [Op("undoMove", engine) EXCEPT !.base = top.pre, !.move = top.move]
  /\ calls' = [calls EXCEPT !.ops = @ + 1]

\* redoMove, lines 1277-1289; its button is disabled while ui.redo is empty
\* (line 1187).
RedoMove ==
  /\ calls.ops < MaxEvents
  /\ Len(redo) > 0
  /\ \E next \in {redo[Len(redo)]} :
       \E made \in {makeMove(engine, next.move, TRUE)} :
         \E ai \in {maybeStartAI(renderAll(made.eng), ui)} :
           /\ engine' = ai.eng
           /\ history' = Append(history, [next EXCEPT !.undo = made.undo])
           /\ redo' = SubSeq(redo, 1, Len(redo) - 1)
           /\ ui' = [ui EXCEPT !.aiTimer = ai.aiTimer]
           /\ last' = [Op("redoMove", engine) EXCEPT !.base = next.post,
                                                     !.move = next.move]
  /\ calls' = [calls EXCEPT !.ops = @ + 1]

UiNext ==
  \/ ClickMove
  \/ \E t \in TickChoices, r \in 0..(RandomLevels - 1) : AiTimer(t, r)
  \/ UndoMove
  \/ RedoMove

UiSpec == UiInit /\ [][UiNext]_vars

\* ------------------------------------------------------- castling positions

\* Positions for the castling rules: rooks on the four corners, the black
\* king on e8, the white king on wk, and one more piece on one more square.
CastleBoard(piece, sq, wk) ==
  [[EmptyBoard EXCEPT ![0] = "r", ![4] = "k", ![7] = "r",
                      ![56] = "R", ![wk] = "K", ![63] = "R"] EXCEPT ![sq] = piece]

CastleFen(piece, sq, wk, turn, rights) ==
  Fen(fenPlacement(CastleBoard(piece, sq, wk)), <<turn>>, rights, <<"-">>, <<"0">>, <<"1">>)

\* The castling fields tried: all rights, one right missing on either side, none.
CastleRights == {<<"K", "Q", "k", "q">>, <<"K", "Q", "k">>, <<"Q", "k", "q">>, <<"-">>}

\* The piece added: a white knight, a black rook or a white rook, on b1, f1,
\* h1 (in place of the rook), b4, d4, e4, f4 or f8.
CastlePieces == {"N", "r", "R"}
CastleSquares == {57, 61, 63, 33, 35, 36, 37, 5}

CastleFens ==
  {CastleFen(p, sq, 60, t, r) :
     p \in CastlePieces, sq \in CastleSquares, t \in Colors, r \in CastleRights}
  \cup {CastleFen(null, 36, wk, t, r) : wk \in {60, 59}, t \in Colors, r \in CastleRights}

\* The most engine operations of a run on a castling position, the load included.
MaxCastleOps == 3

\* A new engine on which one of the castling positions has been loaded.
CastleInit ==
  /\ \E fen \in CastleFens :
       /\ engine = loadFEN(NewEngine, fen).eng
       /\ last = [OpRecord("loadFEN", NewEngine, "new") EXCEPT !.fen = fen]
  /\ history = <<>>
  /\ redo = <<>>
  /\ ui = [mode |-> "hvh", humanSide |-> "w", difficulty |-> "medium", aiTimer |-> FALSE]
  /\ calls = [loads |-> 1, searches |-> 0, ops |-> 1]

CastleNext ==
  /\ calls.ops < MaxCastleOps
  /\ \/ \E c \in Colors : GenerateLegalMoves(c)
     \/ \E m \in offered : MakeMove(m, TRUE)

CastleSpec == CastleInit /\ [][CastleNext]_vars

\* ------------------------------------------------------------- game results

\* Positions for the result of a game.  Kings on a8 and h1 and nothing else,
\* with a halfmove clock far from, near and next to one hundred.
FenKingsAt(halfmove) == Fen(PlacementKings, <<"w">>, <<"-">>, <<"-">>, halfmove, <<"1">>)

\* A pawn of each side that can advance or capture the other, the clock at 99.
\* "k7/8/8/8/3p4/4P3/8/7K w - - 99 60"
FenClock ==
  <<"k", "7", "/", "8", "/", "8", "/", "8", "/", "3", "p", "4", "/", "4", "P", "3", "/",
    "8", "/", "7", "K", " ", "w", " ", "-", " ", "-", " ", "9", "9", " ", "6", "0">>

\* Black is checkmated and the clock stands at 100.
\* "7k/6Q1/5K2/8/8/8/8/8 b - - 100 60"
FenCheckmateLate ==
  <<"7", "k", "/", "6", "Q", "1", "/", "5", "K", "2", "/", "8", "/", "8", "/", "8", "/",
    "8", "/", "8", " ", "b", " ", "-", " ", "-", " ", "1", "0", "0", " ", "6", "0">>

\* Black is checkmated by two knights.
\* "7k/5N2/5NK1/8/8/8/8/8 b - - 0 1"
FenCheckmateKnights ==
  <<"7", "k", "/", "5", "N", "2", "/", "5", "N", "K", "1", "/", "8", "/", "8", "/", "8", "/",
    "8", "/", "8", " ", "b", " ", "-", " ", "-", " ", "0", " ", "1">>

\* Black is stalemated by king and bishop, the clock at 100.
\* "k7/2B5/1K6/8/8/8/8/8 b - - 100 60"
FenStalemateLate ==
  <<"k", "7", "/", "2", "B", "5", "/", "1", "K", "6", "/", "8", "/", "8", "/", "8", "/",
    "8", "/", "8", " ", "b", " ", "-", " ", "-", " ", "1", "0", "0", " ", "6", "0">>

\* Kings on c8 and f1 and up to three more pieces, on c5, d5 and e5.
MaterialPieces == {null, "B", "N", "b", "n", "P", "r", "Q"}
MaterialFen(p1, p2, p3) ==
  Fen(fenPlacement([EmptyBoard EXCEPT ![2] = "k", ![61] = "K",
                                      ![26] = p1, ![27] = p2, ![28] = p3]),
      <<"w">>, <<"-">>, <<"-">>, <<"0">>, <<"1">>)
MaterialFens ==
  {MaterialFen(p1, p2, p3) : p1 \in MaterialPieces, p2 \in MaterialPieces, p3 \in MaterialPieces}

GameFens ==
  {START_FEN, FenKingsAt(<<"0">>), FenKingsAt(<<"9", "2">>), FenKingsAt(<<"9", "9">>),
   FenClock, FenCheckmate, FenStalemate, FenCheckmateLate, FenCheckmateKnights,
   FenStalemateLate}
  \cup MaterialFens

\* The moves played in these games, as pairs of squares: the knights between
\* g1 and f3, b1 and c3, g8 and f6; the kings between h1 and h2, a8 and a7;
\* the pawns of FenClock advancing and capturing.
PlayedMoves ==
  {<<62, 45>>, <<45, 62>>, <<57, 42>>, <<42, 57>>,
   <<6, 21>>, <<21, 6>>,
   <<63, 55>>, <<55, 63>>, <<0, 8>>, <<8, 0>>,
   <<44, 36>>, <<44, 35>>, <<35, 43>>, <<35, 44>>}

\* The most moves of a game.
MaxGamePly == 8

GameInit ==
  /\ \E fen \in GameFens :
       /\ engine = loadFEN(NewEngine, fen).eng
       /\ last = [OpRecord("loadFEN", NewEngine, "new") EXCEPT !.fen = fen]
  /\ history = <<>>
  /\ redo = <<>>
  /\ ui = [mode |-> "hvh", humanSide |-> "w", difficulty |-> "medium", aiTimer |-> FALSE]
  /\ calls = [loads |-> 1, searches |-> 0, ops |-> 1]

\* A move of generateLegalMoves(turn) is made, its position recorded: the
\* engine's part of applyMove, lines 1245-1252.
PlayMove ==
  /\ Len(history) < MaxGamePly
  /\ \E legal \in {generateLegalMoves(engine, engine.turn)} :
       \E m \in moveSet(legal.moves) :
         /\ <<m.from, m.to>> \in PlayedMoves
         /\ \E made \in {makeMove(legal.eng, m, TRUE)} :
              /\ engine' = made.eng
              /\ history' = Append(history, [move |-> m, undo |-> made.undo, track |-> TRUE,
                                             pre |-> legal.eng, post |-> made.eng])
         /\ last' = [Op("makeMove", legal.eng) EXCEPT !.move = m, !.track = TRUE]
  /\ UNCHANGED <<redo, ui, calls>>

\* engine.getGameResult(), lines 752-763.
GetGameResult ==
  /\ \E res \in {getGameResult(engine)} :
       /\ engine' = res.eng
       /\ last' = [Op("getGameResult", engine) EXCEPT !.over = res.over,
                                                      !.result = res.result,
                                                      !.winner = res.winner]
  /\ UNCHANGED <<history, redo, ui, calls>>

\* engine.isInsufficientMaterial(), lines 724-750.
IsInsufficientMaterial ==
  /\ last' = [Op("isInsufficientMaterial", engine)
                EXCEPT !.answer = isInsufficientMaterial(engine)]
  /\ UNCHANGED <<engine, history, redo, ui, calls>>

GameNext == PlayMove \/ GetGameResult \/ IsInsufficientMaterial

GameSpec == GameInit /\ [][GameNext]_vars

\* -------------------------------------------------------------------- perft

\* The leaf nodes reached from e by applying every move of
\* generateLegalMoves(turn), depth plies deep (lines 395-554).
RECURSIVE perft(_, _)
RECURSIVE perftMoves(_, _, _, _)

\* The moves i..Len(moves) of a node, each made on the node's engine.
perftMoves(e, moves, i, depth) ==
  IF i > Len(moves) THEN 0
  ELSE perft(makeMove(e, moves[i], FALSE).eng, depth) + perftMoves(e, moves, i + 1, depth)

perftLegal(legal, depth) ==
  IF depth = 1 THEN Len(legal.moves) ELSE perftMoves(legal.eng, legal.moves, 1, depth - 1)

perft(e, depth) ==
  IF depth = 0 THEN 1 ELSE perftLegal(generateLegalMoves(e, e.turn), depth)

\* The depths counted.
PerftDepths == 1..3

\* A legal move is made from a node above the deepest level.
PerftPlay ==
  /\ Len(history) + 1 < Cardinality(PerftDepths)
  /\ \E legal \in {generateLegalMoves(engine, engine.turn)} :
       \E m \in moveSet(legal.moves) :
         /\ \E made \in {makeMove(legal.eng, m, TRUE)} :
              /\ engine' = made.eng
              /\ history' = Append(history, [move |-> m, undo |-> made.undo, track |-> TRUE,
                                             pre |-> legal.eng, post |-> made.eng])
         /\ last' = [Op("makeMove", legal.eng) EXCEPT !.move = m, !.track = TRUE]
  /\ UNCHANGED <<redo, ui, calls>>

\* The leaf nodes below the current node are counted.
Perft(depth) ==
  /\ Len(history) + depth <= Cardinality(PerftDepths)
  /\ last' = [Op("perft", engine) EXCEPT !.depth = depth, !.score = perft(engine, depth)]
  /\ UNCHANGED <<engine, history, redo, ui, calls>>

PerftNext == PerftPlay \/ \E depth \in PerftDepths : Perft(depth)

PerftSpec == Init /\ [][PerftNext]_vars

\* ------------------------------------------------------- the search in depth

\* Positions small enough for the search to finish every depth.
\* "7k/5K1p/6P1/8/8/8/8/8 w - - 0 1": g6-g7 is checkmate.
FenMateInOne ==
  <<"7", "k", "/", "5", "K", "1", "p", "/", "6", "P", "1", "/", "8", "/",
    "8", "/", "8", "/", "8", "/", "8", " ", "w", " ", "-", " ", "-", " ",
    "0", " ", "1">>

\* "8/8/8/8/8/6p1/5k1P/7K b - - 0 1": g3-g2 is checkmate.
FenMateInOneBlack ==
  <<"8", "/", "8", "/", "8", "/", "8", "/", "8", "/", "6", "p", "1", "/",
    "5", "k", "1", "P", "/", "7", "K", " ", "b", " ", "-", " ", "-", " ",
    "0", " ", "1">>

\* "7k/8/8/8/8/8/P7/K7 w - - 0 1": White is a pawn up.
FenPawnUp ==
  <<"7", "k", "/", "8", "/", "8", "/", "8", "/", "8", "/", "8", "/", "P", "7",
    "/", "K", "7", " ", "w", " ", "-", " ", "-", " ", "0", " ", "1">>

DeepFens == {FenMateInOne, FenMateInOneBlack, FenPawnUp}

\* A clock that no search of these positions exhausts.
Unhurried == 1000000

MaxDeepTicks == 24

DeepTicks == 0..MaxDeepTicks \cup {Unhurried}

MaxDeepPly == 1

DeepInit ==
  /\ \E fen \in DeepFens :
       /\ engine = loadFEN(NewEngine, fen).eng
       /\ last = [OpRecord("loadFEN", NewEngine, "new") EXCEPT !.fen = fen]
  /\ history = <<>>
  /\ redo = <<>>
  /\ ui = [mode |-> "hvh", humanSide |-> "w", difficulty |-> "medium", aiTimer |-> FALSE]
  /\ calls = [loads |-> 1, searches |-> 0, ops |-> 1]

\* A legal move is made, as the search makes it at lines 843 and 863.
DeepPlay ==
  /\ Len(history) < MaxDeepPly /\ last.op \in {"loadFEN", "makeMove"}
  /\ \E legal \in {generateLegalMoves(engine, engine.turn)} :
       \E m \in moveSet(legal.moves) :
         /\ \E made \in {makeMove(legal.eng, m, FALSE)} :
              /\ engine' = made.eng
              /\ history' = Append(history, [move |-> m, undo |-> made.undo, track |-> FALSE,
                                             pre |-> legal.eng, post |-> made.eng])
         /\ last' = [Op("makeMove", legal.eng) EXCEPT !.move = m]
  /\ UNCHANGED <<redo, ui, calls>>

\* The side the search works for when the node `ply` moves below the root
\* has the side `turn` to move.
rootMover(turn, ply) == IF ply % 2 = 0 THEN turn ELSE opponent(turn)

\* One call of negamax, lines 828-856: the node `ply` moves below the root of
\* the iteration `depth` of a search of maxDepth, with the full window.
Negamax(maxDepth, depth, ply, ticks) ==
  /\ last.op \in {"loadFEN", "makeMove"}
  /\ \E res \in {negamax([eng |-> engine, ticks |-> ticks], depth - ply, -Infinity,
                          Infinity, rootMover(engine.turn, ply), maxDepth)} :
       /\ engine' = res.eng
       /\ last' = [Op("negamax", engine) EXCEPT !.depth = depth - ply,
                                                !.score = res.score,
                                                !.aborted = res.aborted,
                                                !.perspective = rootMover(engine.turn, ply),
                                                !.maxDepth = maxDepth,
                                                !.ticks = ticks]
  /\ UNCHANGED <<history, redo, ui, calls>>

\* findBestMove(engine, difficulty) of a searching level.
Search(difficulty, ticks) ==
  /\ calls.searches < MaxSearches /\ last.op = "loadFEN"
  /\ \E res \in {findBestMove(engine, difficulty, ticks, 0)} :
       /\ engine' = res.eng
       /\ last' = [Op("findBestMove", engine) EXCEPT !.move = res.move,
                                                     !.difficulty = difficulty,
                                                     !.ticks = ticks]
  /\ calls' = [calls EXCEPT !.searches = @ + 1]
  /\ UNCHANGED <<history, redo, ui>>

DeepNext ==
  \/ DeepPlay
  \/ \E maxDepth \in {3, 4} : \E depth \in 1..maxDepth : \E ply \in 1..depth :
       \E ticks \in {0, Unhurried} : Negamax(maxDepth, depth, ply, ticks)
  \/ \E d \in {"medium", "hard"}, t \in DeepTicks : Search(d, t)

DeepSpec == DeepInit /\ [][DeepNext]_vars

\* ------------------------------------------------------- the clicks of a human

\* legalMovesFromSquare, lines 1303-1305.
fromSquare(legal, from) ==
  [eng |-> legal.eng, moves |-> SelectSeq(legal.moves, LAMBDA m : m.from = from)]

legalMovesFromSquare(e, from) == fromSquare(generateLegalMoves(e, e.turn), from)

\* A page that keeps the selection where it should drop it.
selectionKept(u) == u

\* ui.selected = null; ui.legalForSelected = [], lines 1252-1253, 1270-1271,
\* 1284-1285 and 1348-1349.
deselected(u) == [u EXCEPT !.selected = NoSq, !.legalForSelected = <<>>]

\* What a handler of the page leaves: the engine, the two lists, the fields
\* of ui and the move it has applied (NullMove when none).
Page(e, h, r, u, move, err) ==
  [eng |-> e, history |-> h, redo |-> r, ui |-> u, move |-> move, err |-> err]

\* Lines 1337-1338 and 1363-1364.
selectSquare(h, r, u, index, sel) ==
  Page(sel.eng, h, r, [u EXCEPT !.selected = index, !.legalForSelected = sel.moves],
       NullMove, "")

\* applyMove as the page sees it, lines 1244-1261: when computeSAN throws the
\* selection stays.
moveApplied(res, u, move) ==
  IF res.err # ""
    THEN Page(res.eng, res.history, res.redo, [u EXCEPT !.aiTimer = FALSE],
              NullMove, res.err)
    ELSE Page(res.eng, res.history, res.redo,
              [deselected(u) EXCEPT !.aiTimer = res.aiTimer], move, "")

\* ui.legalForSelected.find((m) => m.to === index), line 1355.
chosenIndex(moves, index) ==
  {i \in 1..Len(moves) : moves[i].to = index /\ \A j \in 1..(i - 1) : moves[j].to # index}

\* Lines 1356-1360: the picker for a promotion, else the move is applied.
activateChosen(e, h, r, u, chosen) ==
  IF chosen.promotion # null
    THEN Page(e, h, r, [u EXCEPT !.pendingPromotion = chosen, !.picker = TRUE],
              NullMove, "")
    ELSE moveApplied(applyMove(e, h, r, u, chosen, TRUE), u, chosen)

isOwnPiece(e, index) == e.board[index] # null /\ colorOf(e.board[index]) = e.turn

\* handleSquareActivate(index), lines 1330-1371.
handleSquareActivate(e, h, r, u, index) ==
  IF ~isHumanToMove(e, u) THEN Page(e, h, r, u, NullMove, "")
  ELSE IF u.selected = NoSq
    THEN IF isOwnPiece(e, index)
           THEN selectSquare(h, r, u, index, legalMovesFromSquare(e, index))
           ELSE Page(e, h, r, u, NullMove, "")
  ELSE IF index = u.selected THEN Page(e, h, r, deselected(u), NullMove, "")
  ELSE IF chosenIndex(u.legalForSelected, index) # {}
    THEN activateChosen(e, h, r, u,
                        u.legalForSelected[CHOOSE i \in chosenIndex(u.legalForSelected, index) : TRUE])
  ELSE IF isOwnPiece(e, index)
    THEN selectSquare(h, r, u, index, legalMovesFromSquare(e, index))
  ELSE Page(e, h, r, u, NullMove, "")

\* The click handler of a button of the picker, lines 1319-1324.
pickPromotion(e, h, r, u, p) ==
  moveApplied(applyMove(e, h, r, u, [u.pendingPromotion EXCEPT !.promotion = p], TRUE),
              [u EXCEPT !.pendingPromotion = NullMove, !.picker = FALSE],
              [u.pendingPromotion EXCEPT !.promotion = p])

\* The positions of the page of ClickSpec.
ClickFens == {FenPromotion, FenEnPassant, FenEpOccupied}

MaxClicks == 4

ClickTicks == {0, 2}

\* The page of lines 1033-1047 once a position has been applied through the
\* dialog, lines 1468-1487.
ClickInit ==
  \E fen \in ClickFens :
    \E u \in {[mode |-> "hvh", humanSide |-> "w", difficulty |-> "medium",
               aiTimer |-> FALSE, selected |-> NoSq, legalForSelected |-> <<>>,
               pendingPromotion |-> NullMove, picker |-> FALSE]} :
      \E res \in {fenApply(NewEngine, <<>>, <<>>, u, fen)} :
        /\ engine = res.eng
        /\ history = res.history
        /\ redo = res.redo
        /\ ui = [u EXCEPT !.aiTimer = res.aiTimer]
        /\ calls = [loads |-> 0, searches |-> 0, ops |-> 0]
        /\ last = [OpRecord("fenApply", NewEngine, "new") EXCEPT !.fen = fen]

\* The squares that are clicked: those that hold a piece, the destinations
\* of the selected piece, and two squares in the middle of the board.
ClickSquares(e, u) ==
  {i \in Squares : e.board[i] # null}
    \cup {u.legalForSelected[i].to : i \in 1..Len(u.legalForSelected)}
    \cup {27, 36}

\* The page takes what a handler has left.
PageIs(res) ==
  /\ engine' = res.eng
  /\ history' = res.history
  /\ redo' = res.redo
  /\ ui' = res.ui

\* A click or Enter on the square index, lines 1383-1397; the board is inert
\* while the picker is shown (showModal, line 1327).
Click(index) ==
  /\ calls.ops < MaxClicks /\ ~ui.picker
  /\ \E res \in {handleSquareActivate(engine, history, redo, ui, index)} :
       /\ PageIs(res)
       /\ last' = [Op("click", engine) EXCEPT !.index = index, !.move = res.move,
                                              !.err = res.err]
  /\ calls' = [calls EXCEPT !.ops = @ + 1]

\* A click on a piece of the picker.
PickPromotion(p) ==
  /\ calls.ops < MaxClicks /\ ui.picker
  /\ \E res \in {pickPromotion(engine, history, redo, ui, p)} :
       /\ PageIs(res)
       /\ last' = [Op("pickPromotion", engine) EXCEPT !.move = res.move, !.err = res.err]
  /\ calls' = [calls EXCEPT !.ops = @ + 1]

\* The picker is closed without a choice, lines 1513-1518: its cancel
\* button clears the pending move, the Escape key leaves it.
ClosePicker(cancel) ==
  /\ calls.ops < MaxClicks /\ ui.picker
  /\ ui' = [ui EXCEPT !.picker = FALSE,
                      !.pendingPromotion = IF cancel THEN NullMove ELSE @]
  /\ last' = Op("closePicker", engine)
  /\ calls' = [calls EXCEPT !.ops = @ + 1]
  /\ UNCHANGED <<engine, history, redo>>

\* The change handlers of modeSelect and humanSideSelect, lines 1520-1529;
\* the side can be chosen in the mode "hvc" only (lines 1207-1216).
ModeChange(mode, humanSide) ==
  /\ calls.ops < MaxClicks /\ ~ui.picker
  /\ \/ mode # ui.mode /\ humanSide = ui.humanSide
     \/ mode = ui.mode /\ mode = "hvc" /\ humanSide # ui.humanSide
  /\ \E ai \in {maybeStartAI(engine, [ui EXCEPT !.mode = mode, !.humanSide = humanSide])} :
       /\ engine' = ai.eng
       /\ ui' = [ui EXCEPT !.mode = mode, !.humanSide = humanSide,
                           !.aiTimer = ai.aiTimer]
  /\ last' = Op("change", engine)
  /\ calls' = [calls EXCEPT !.ops = @ + 1]
  /\ UNCHANGED <<history, redo>>

\* The callback of ui.aiTimer, lines 1235-1241.
AiMove(ticks) ==
  /\ calls.ops < MaxClicks
  /\ ui.aiTimer
  /\ \E best \in {findBestMove(engine, ui.difficulty, ticks, 0)} :
       IF best.move = NullMove
         THEN /\ engine' = best.eng
              /\ ui' = [ui EXCEPT !.aiTimer = FALSE]
              /\ last' = Op("aiMove", engine)
              /\ UNCHANGED <<history, redo>>
         ELSE \E res \in {moveApplied(applyMove(best.eng, history, redo, ui,
                                                aiPromotion(best.move), FALSE),
                                      ui, aiPromotion(best.move))} :
                /\ PageIs(res)
                /\ last' = [Op("aiMove", engine) EXCEPT !.move = res.move,
                                                        !.err = res.err]
  /\ calls' = [calls EXCEPT !.ops = @ + 1]

\* undoMove, lines 1263-1275.
ClickUndo ==
  /\ calls.ops < MaxClicks /\ ~ui.picker
  /\ Len(history) > 0
  /\ \E top \in {history[Len(history)]} :
       \E ai \in {maybeStartAI(renderAll(unmakeMove(engine, top.undo, TRUE)), ui)} :
         /\ engine' = ai.eng
         /\ history' = SubSeq(history, 1, Len(history) - 1)
         /\ redo' = Append(redo, [top EXCEPT !.post = engine])
         /\ ui' = [deselected(ui) EXCEPT !.aiTimer = ai.aiTimer]
         /\ last' = [Op("undoMove", engine) EXCEPT !.base = top.pre, !.move = top.move]
  /\ calls' = [calls EXCEPT !.ops = @ + 1]

\* redoMove, lines 1277-1289.
ClickRedo ==
  /\ calls.ops < MaxClicks /\ ~ui.picker
  /\ Len(redo) > 0
  /\ \E next \in {redo[Len(redo)]} :
       \E made \in {makeMove(engine, next.move, TRUE)} :
         \E ai \in {maybeStartAI(renderAll(made.eng), ui)} :
           /\ engine' = ai.eng
           /\ history' = Append(history, [next EXCEPT !.undo = made.undo])
           /\ redo' = SubSeq(redo, 1, Len(redo) - 1)
           /\ ui' = [deselected(ui) EXCEPT !.aiTimer = ai.aiTimer]
           /\ last' = [Op("redoMove", engine) EXCEPT !.base = next.post,
                                                     !.move = next.move]
  /\ calls' = [calls EXCEPT !.ops = @ + 1]

ClickNext ==
  \/ \E index \in ClickSquares(engine, ui) : Click(index)
  \/ \E p \in {"q", "r", "b", "n"} : PickPromotion(p)
  \/ \E cancel \in BOOLEAN : ClosePicker(cancel)
  \/ \E mode \in Modes, side \in Colors : ModeChange(mode, side)
  \/ \E t \in ClickTicks : AiMove(t)
  \/ ClickUndo
  \/ ClickRedo

ClickSpec == ClickInit /\ [][ClickNext]_vars

\* ------------------------------------------------------- the order of the moves

\* "1r2k3/P7/8/3q4/8/4N3/8/4K3 w - - 0 1": the pawn promotes on a8 or by
\* taking the rook, the knight takes the queen.
FenPromoteOrTake ==
  <<"1", "r", "2", "k", "3", "/", "P", "7", "/", "8", "/", "3", "q", "4",
    "/", "8", "/", "4", "N", "3", "/", "8", "/", "4", "K", "3", " ", "w",
    " ", "-", " ", "-", " ", "0", " ", "1">>

OrderFens ==
  {START_FEN, FenCastle, FenEnPassant, FenPromotion, FenPromoteOrTake,
   FenKingAttacked}

MaxOrderPly == 1

OrderInit ==
  /\ \E fen \in OrderFens :
       /\ engine = loadFEN(NewEngine, fen).eng
       /\ last = [OpRecord("loadFEN", NewEngine, "new") EXCEPT !.fen = fen]
  /\ history = <<>>
  /\ redo = <<>>
  /\ ui = [mode |-> "hvh", humanSide |-> "w", difficulty |-> "medium", aiTimer |-> FALSE]
  /\ calls = [loads |-> 1, searches |-> 0, ops |-> 1]

\* A legal move is made, as the search makes it at lines 843 and 863.
OrderPlay ==
  /\ Len(history) < MaxOrderPly /\ last.op \in {"loadFEN", "makeMove"}
  /\ \E legal \in {generateLegalMoves(engine, engine.turn)} :
       \E m \in moveSet(legal.moves) :
         /\ \E made \in {makeMove(legal.eng, m, FALSE)} :
              /\ engine' = made.eng
              /\ history' = Append(history, [move |-> m, undo |-> made.undo, track |-> FALSE,
                                             pre |-> legal.eng, post |-> made.eng])
         /\ last' = [Op("makeMove", legal.eng) EXCEPT !.move = m]
  /\ UNCHANGED <<redo, ui, calls>>

\* orderMoves(engine.generateLegalMoves(engine.turn)), lines 840 and 862.
OrderMoves ==
  /\ last.op \in {"loadFEN", "makeMove"}
  /\ \E legal \in {generateLegalMoves(engine, engine.turn)} :
       /\ engine' = legal.eng
       /\ last' = [Op("orderMoves", engine) EXCEPT !.moves = legal.moves,
                                                   !.ordered = orderMoves(legal.moves)]
  /\ UNCHANGED <<history, redo, ui, calls>>

OrderNext == OrderPlay \/ OrderMoves

OrderSpec == OrderInit /\ [][OrderNext]_vars

\* ------------------------------------------------------- the evaluation

\* "4k3/8/8/q7/8/8/5Q2/4K3 w - - 0 1": a queen of each side off the centre.
FenQueens ==
  <<"4", "k", "3", "/", "8", "/", "8", "/", "q", "7", "/", "8", "/", "8", "/",
    "5", "Q", "2", "/", "4", "K", "3", " ", "w", " ", "-", " ", "-", " ", "0",
    " ", "1">>

EvalFens == {START_FEN, FenQueens, FenPromoteOrTake, FenMateInOne}

MaxEvalPly == 1

EvalInit ==
  /\ \E fen \in EvalFens :
       /\ engine = loadFEN(NewEngine, fen).eng
       /\ last = [OpRecord("loadFEN", NewEngine, "new") EXCEPT !.fen = fen]
  /\ history = <<>>
  /\ redo = <<>>
  /\ ui = [mode |-> "hvh", humanSide |-> "w", difficulty |-> "medium", aiTimer |-> FALSE]
  /\ calls = [loads |-> 1, searches |-> 0, ops |-> 1]

\* A legal move is made, as the search makes it before it evaluates a leaf.
EvalPlay ==
  /\ Len(history) < MaxEvalPly /\ last.op \in {"loadFEN", "makeMove"}
  /\ \E legal \in {generateLegalMoves(engine, engine.turn)} :
       \E m \in moveSet(legal.moves) :
         /\ \E made \in {makeMove(legal.eng, m, FALSE)} :
              /\ engine' = made.eng
              /\ history' = Append(history, [move |-> m, undo |-> made.undo, track |-> FALSE,
                                             pre |-> legal.eng, post |-> made.eng])
         /\ last' = [Op("makeMove", legal.eng) EXCEPT !.move = m]
  /\ UNCHANGED <<redo, ui, calls>>

\* evaluate(engine, perspectiveColor) of a position not yet evaluated.
EvalPosition(perspectiveColor) ==
  /\ last.op \in {"loadFEN", "makeMove"}
  /\ \E res \in {evaluate(engine, perspectiveColor)} :
       /\ engine' = res.eng
       /\ last' = [Op("evaluate", engine) EXCEPT !.color = perspectiveColor,
                                                 !.score = res.score]
  /\ UNCHANGED <<history, redo, ui, calls>>

EvalNext == EvalPlay \/ \E c \in Colors : EvalPosition(c)

EvalSpec == EvalInit /\ [][EvalNext]_vars

\* ------------------------------------------------------------------ claims

\* The fields of a position: board, side to move, castling rights, en passant
\* target, clocks, hash and cached king squares (lines 190-203).
positionOf(e) ==
  [board |-> e.board, turn |-> e.turn, castling |-> e.castling, ep |-> e.ep,
   halfmove |-> e.halfmove, fullmove |-> e.fullmove, hash |-> e.hash,
   wKing |-> e.wKing, bKing |-> e.bKing]

\* The hash of e is the hash recomputed from its board, side to move,
\* castling rights and en passant target (lines 209-221).
hashIsRight(e) == e.hash = computeHash(e)

\* C1: after a successful loadFEN, and after makeMove, unmakeMove,
\* generateLegalMoves and evaluate on an engine whose hash was right and that
\* had no en passant target, engine.hash equals the hash recomputed from the
\* board, side to move, castling rights and en passant target.
C1_HashIsRecomputedHash ==
  \/ last.op = "loadFEN" /\ last.err = ""
  \/ /\ last.op \in {"makeMove", "unmakeMove", "generateLegalMoves", "evaluate"}
     /\ hashIsRight(last.pre) /\ last.pre.ep = NoSq
  => hashIsRight(engine)

C3_LegalIffNotInCheck ==
  (last.op = "generateLegalMoves" /\ last.color = last.pre.turn
     /\ hashIsRight(last.pre))
    => last.moves = SelectSeq(generatePseudoMoves(last.pre, last.color),
                              LAMBDA m : ~inCheck(makeMove(last.pre, m, FALSE).eng,
                                                  last.color))

\* C4: findBestMove returns null exactly when the side to move has no legal
\* move, and otherwise a move of generateLegalMoves(turn) on the position it
\* was called with.
C4_BestMoveIsLegal ==
  last.op = "findBestMove"
    => \E legal \in {generateLegalMoves(last.pre, last.pre.turn).moves} :
         IF Len(legal) = 0 THEN last.move = NullMove
         ELSE last.move \in moveSet(legal)

\* C4 happens: a search returned a move on a position where some pseudo-legal
\* move is not legal.
C4_Witness ==
  /\ last.op = "findBestMove" /\ last.move # NullMove
  /\ Len(generateLegalMoves(last.pre, last.pre.turn).moves)
       < Len(generatePseudoMoves(last.pre, last.pre.turn))

\* C5: after evaluate returns on a position whose hash was right and that
\* had no en passant target, the position is what it was before the call.
C5_EvaluateKeepsPosition ==
  (last.op = "evaluate" /\ hashIsRight(last.pre) /\ last.pre.ep = NoSq)
    => positionOf(engine) = positionOf(last.pre)

\* C6: when findBestMove returns on a position whose hash was right and that
\* had no en passant target, the position is what it was on entry.
C6_SearchKeepsPosition ==
  (last.op = "findBestMove" /\ hashIsRight(last.pre) /\ last.pre.ep = NoSq)
    => positionOf(engine) = positionOf(last.pre)

\* C7: undoMove restores the engine to the state it had before the undone
\* move was applied, and undoMove immediately followed by redoMove gives the
\* engine state from before the undo.
C7_UndoRedoRestore ==
  /\ last.op = "undoMove" => engine = last.base
  /\ (last.op = "redoMove" /\ last.prev = "undoMove") => engine = last.base

\* C8: when loadFEN throws, the position and the hash line are what they
\* were before the call.
C8_FailedLoadIsAtomic ==
  (last.op = "loadFEN" /\ last.err # "")
    => /\ positionOf(engine) = positionOf(last.pre)
       /\ engine.hashLine = last.pre.hashLine

\* C9: loadFEN throws on every malformed input.
C9_MalformedIsRejected ==
  (last.op = "loadFEN" /\ last.fen \in MalformedFens) => last.err # ""

\* C10: after a legal move made on a position whose hash was right, loading
\* the text toFEN gives succeeds, exports the same text again and has the
\* same board, side to move, castling rights, en passant target, clocks and
\* hash.
C10_FenRoundTrip ==
  (last.op = "makeMove" /\ last.track /\ hashIsRight(last.pre))
    => \E again \in {loadFEN(NewEngine, toFEN(engine))} :
         /\ again.err = ""
         /\ toFEN(again.eng) = toFEN(engine)
         /\ [positionOf(again.eng) EXCEPT !.wKing = 0, !.bKing = 0]
              = [positionOf(engine) EXCEPT !.wKing = 0, !.bKing = 0]

\* The home square of the king of a colour and the corner of its rook on a
\* wing, the squares strictly between them, and the squares the king crosses
\* and lands on (lines 502-536).
kingHome(color) == IF color = "w" THEN 60 ELSE 4
rookCorner(color, side) == kingHome(color) + (IF side = "K" THEN 3 ELSE -4)
kingPath(color, side) ==
  {kingHome(color) + (IF side = "K" THEN d ELSE -d) : d \in 1..2}
squaresBetween(a, b) == {sq \in Squares : (a < sq /\ sq < b) \/ (b < sq /\ sq < a)}

\* The conditions of castling for a colour on a wing in the position e.
castlingAllowed(e, color, side) ==
  /\ e.board[kingHome(color)] = (IF color = "w" THEN "K" ELSE "k")
  /\ e.castling[IF color = "w" THEN side ELSE toLowerCase(side)]
  /\ \A sq \in squaresBetween(kingHome(color), rookCorner(color, side)) :
       e.board[sq] = null
  /\ e.board[rookCorner(color, side)] = (IF color = "w" THEN "R" ELSE "r")
  /\ ~isSquareAttacked(e.board, kingHome(color), opponent(color))
  /\ \A sq \in kingPath(color, side) : ~isSquareAttacked(e.board, sq, opponent(color))

\* The engine e with every castling right cleared.
withoutRights(e) ==
  [e EXCEPT !.castling = [K |-> FALSE, Q |-> FALSE, k |-> FALSE, q |-> FALSE]]

\* C11: generateLegalMoves(c) contains the castling move of colour c on a wing
\* if and only if c's king is on its home square, the right is set, the
\* squares between king and rook are empty, the rook is on its corner, the
\* king is not in check and neither the square it crosses nor the one it
\* lands on is attacked; the moves that are not castling moves are those of
\* the same position without castling rights.
C11_CastlingIffConditions ==
  (last.op = "generateLegalMoves" /\ hashIsRight(last.pre))
    => /\ \A side \in {"K", "Q"} :
            (\E m \in moveSet(last.moves) : m.isCastle /\ m.castleSide = side
                                             /\ m.from = kingHome(last.color))
              <=> castlingAllowed(last.pre, last.color, side)
       /\ SelectSeq(last.moves, LAMBDA m : ~m.isCastle)
            = generateLegalMoves(withoutRights(last.pre), last.color).moves

\* A wing's castling move is offered while the other wing's is not, though its
\* right is set.
C11_Witness ==
  /\ last.op = "generateLegalMoves"
  /\ last.pre.castling.K /\ last.pre.castling.Q /\ last.color = "w"
  /\ \E m \in moveSet(last.moves) : m.isCastle /\ m.castleSide = "Q"
  /\ ~\E m \in moveSet(last.moves) : m.isCastle /\ m.castleSide = "K"

\* A pawn advancing two squares, and a pawn capturing onto an empty square.
isTwoSquareAdvance(m) ==
  toLowerCase(m.piece) = "p" /\ abs(rankOf(m.to) - rankOf(m.from)) = 2
capturesOntoEmpty(e, m) ==
  toLowerCase(m.piece) = "p" /\ fileOf(m.to) # fileOf(m.from) /\ e.board[m.to] = null

\* C12: after makeMove the en passant target is set if and only if the move
\* was a two-square pawn advance, and then it is the square skipped; so a
\* target set before the move is not the target after it.  generateLegalMoves
\* returns an en passant capture only onto the current target.
C12_EnPassantWindow ==
  /\ last.op = "makeMove"
       => /\ engine.ep # NoSq <=> isTwoSquareAdvance(last.move)
          /\ engine.ep # NoSq
               => /\ fileOf(engine.ep) = fileOf(last.move.from)
                  /\ 2 * rankOf(engine.ep) = rankOf(last.move.from) + rankOf(last.move.to)
          /\ last.pre.ep # NoSq => engine.ep # last.pre.ep
  /\ last.op = "generateLegalMoves"
       => \A m \in moveSet(last.moves) :
            (m.isEnPassant \/ capturesOntoEmpty(last.pre, m))
              => (last.pre.ep # NoSq /\ m.to = last.pre.ep /\ m.isEnPassant)

\* A position with a target and a capture onto it; a move that is not that
\* capture has been made and the legal moves have been asked for again.
C12_Witness ==
  /\ last.op = "generateLegalMoves" /\ last.prev = "makeMove"
  /\ Len(history) > 0
  /\ \E top \in {history[Len(history)]} :
       /\ top.pre.ep # NoSq /\ ~top.move.isEnPassant
       /\ top.post = last.pre
       /\ \E m \in moveSet(generateLegalMoves(top.pre, top.pre.turn).moves) : m.isEnPassant
  /\ engine.ep = NoSq

\* The number of pieces p on the board of e, and the king square of a colour.
countOf(e, p) == Cardinality({i \in Squares : e.board[i] = p})
kingSquare(e, color) ==
  CHOOSE i \in Squares : e.board[i] = (IF color = "w" THEN "K" ELSE "k")

\* The side to move of e has a legal move: a pseudo-legal move after which
\* its king is not attacked (lines 544-554).
hasLegalMove(e) ==
  \E m \in moveSet(generatePseudoMoves(e, e.turn)) :
    \E after \in {makeMove(e, m, FALSE).eng} :
      ~isSquareAttacked(after.board, kingSquare(after, e.turn), opponent(e.turn))

\* A side can mate with two bishops, bishop and knight, or three knights; the
\* material is insufficient when there is no pawn, rook or queen and neither
\* side can mate (lines 724-750).
canMate(bishops, knights) ==
  bishops >= 2 \/ (bishops >= 1 /\ knights >= 1) \/ knights >= 3
materialIsInsufficient(e) ==
  /\ \A p \in {"p", "P", "r", "R", "q", "Q"} : countOf(e, p) = 0
  /\ ~canMate(countOf(e, "B"), countOf(e, "N"))
  /\ ~canMate(countOf(e, "b"), countOf(e, "n"))

\* The result getGameResult has returned.
resultIs(over, result, winner) ==
  last.over = over /\ last.result = result /\ last.winner = winner

\* C13: with no legal move getGameResult reports checkmate, won by the
\* opponent, when the side to move is in check and stalemate otherwise,
\* whatever the clock, the repetition count and the material; with a legal
\* move it reports fifty-move when halfmove >= 100, else threefold when the
\* repetition count is at least 3, else insufficient material, else that the
\* game is not over.
C13_MateBeforeDraws ==
  (last.op = "getGameResult" /\ hashIsRight(last.pre))
    => \E e \in {last.pre} :
         IF ~hasLegalMove(e)
           THEN IF isSquareAttacked(e.board, kingSquare(e, e.turn), opponent(e.turn))
                  THEN resultIs(TRUE, "checkmate", opponent(e.turn))
                  ELSE resultIs(TRUE, "stalemate", null)
         ELSE IF e.halfmove >= 100 THEN resultIs(TRUE, "fifty-move", null)
         ELSE IF getRepetitionCount(e) >= 3 THEN resultIs(TRUE, "threefold", null)
         ELSE IF materialIsInsufficient(e) THEN resultIs(TRUE, "insufficient", null)
         ELSE resultIs(FALSE, null, null)

\* Stalemate is reported although the clock has reached 100 and the material
\* is insufficient.
C13_Witness ==
  /\ last.op = "getGameResult" /\ last.result = "stalemate"
  /\ last.pre.halfmove >= 100 /\ materialIsInsufficient(last.pre)

\* Two engines hold the same position: board, side to move, castling rights
\* and en passant target.
samePosition(a, b) ==
  a.board = b.board /\ a.turn = b.turn /\ a.castling = b.castling /\ a.ep = b.ep

\* The number of times the position of e has been reached since the load, over
\* the loaded position and the positions after each move of the game.
timesReached(e) ==
  Cardinality({i \in 1..Len(history) : samePosition(history[i].post, e)})
    + (IF Len(history) = 0 \/ samePosition(history[1].pre, e) THEN 1 ELSE 0)

\* C14: when the position has been reached for the third time since the load
\* by history-tracked moves, the side to move has a legal move and the
\* halfmove clock is below 100, getGameResult reports threefold.
C14_ThirdTimeIsThreefold ==
  (/\ last.op = "getGameResult"
   /\ timesReached(last.pre) >= 3
   /\ last.pre.halfmove < 100
   /\ hasLegalMove(last.pre))
    => resultIs(TRUE, "threefold", null)

\* The start position for the third time, after eight knight moves.
C14_Witness ==
  /\ last.op = "getGameResult" /\ last.result = "threefold"
  /\ Len(history) = 8 /\ timesReached(last.pre) = 3
  /\ toFEN(history[1].pre) = START_FEN
  /\ ~materialIsInsufficient(last.pre)

\* C15: makeMove sets the halfmove clock to 0 when a pawn moves or a piece is
\* captured and adds 1 to it otherwise; getGameResult reports fifty-move when
\* the clock has reached 100 and a legal move exists, and never below 100.
C15_FiftyMoveClock ==
  /\ last.op = "makeMove"
       => engine.halfmove =
            IF \/ toLowerCase(last.move.piece) = "p"
               \/ last.pre.board[last.move.to] # null
              THEN 0 ELSE last.pre.halfmove + 1
  /\ last.op = "getGameResult"
       => /\ last.result = "fifty-move" => last.pre.halfmove >= 100
          /\ (last.pre.halfmove >= 100 /\ hasLegalMove(last.pre))
               => resultIs(TRUE, "fifty-move", null)

\* The clock has run from 99 or below to 100 by moves of the game and
\* fifty-move is reported.
C15_Witness ==
  /\ last.op = "getGameResult" /\ last.result = "fifty-move"
  /\ Len(history) > 0 /\ history[1].pre.halfmove < 100
  /\ last.pre.halfmove = 100

\* C16: isInsufficientMaterial is true exactly when the board holds no pawn,
\* rook or queen and neither side has two bishops, bishop and knight, or three
\* knights.
C16_InsufficientMaterial ==
  last.op = "isInsufficientMaterial" => (last.answer <=> materialIsInsufficient(last.pre))

\* King and two knights against king: insufficient.
C16_Witness ==
  /\ last.op = "isInsufficientMaterial" /\ last.answer
  /\ countOf(last.pre, "N") = 2
  /\ Cardinality({i \in Squares : last.pre.board[i] # null}) = 4

\* C17: after a successful loadFEN and after makeMove and unmakeMove of moves
\* taken from generateLegalMoves(turn), the board holds exactly one white king
\* and exactly one black king.
C17_OneKingEach ==
  (\/ last.op = "loadFEN" /\ last.err = ""
   \/ last.op \in {"makeMove", "unmakeMove"})
    => countOf(engine, "K") = 1 /\ countOf(engine, "k") = 1

\* The four castling rights.
Rights == {"K", "Q", "k", "q"}

\* C18: a castling right that is false before makeMove is false after it.
C18_RightsNeverReturn ==
  last.op = "makeMove"
    => \A r \in Rights : ~last.pre.castling[r] => ~engine.castling[r]

\* A move is made with one right of a side cleared before it and the other
\* cleared by it.
C18_Witness ==
  /\ last.op = "makeMove"
  /\ ~last.pre.castling.K /\ last.pre.castling.Q /\ ~engine.castling.Q
  /\ last.pre.castling.k /\ engine.castling.k

\* Every right that is set has its king on the home square and a rook of its
\* colour on its corner.
rightsImplyHome(e) ==
  \A color \in Colors, side \in {"K", "Q"} :
    e.castling[IF color = "w" THEN side ELSE toLowerCase(side)]
      => /\ e.board[kingHome(color)] = (IF color = "w" THEN "K" ELSE "k")
         /\ e.board[rookCorner(color, side)] = (IF color = "w" THEN "R" ELSE "r")

\* What legal play from the start position keeps true besides: one king of
\* each colour, and the side that has just moved is not in check.
playedLegally(e) ==
  /\ countOf(e, "K") = 1 /\ countOf(e, "k") = 1
  /\ ~isSquareAttacked(e.board, kingSquare(e, opponent(e.turn)), e.turn)

\* C19: the start position has king and rook at home for each right, and a
\* legal move keeps it so: a king move clears both rights of its side, a rook
\* move from a corner and the capture of a rook on a corner clear that
\* corner's right.
C19_RightsImplyHome ==
  /\ rightsImplyHome(NewEngine) /\ playedLegally(NewEngine)
  /\ (last.op = "makeMove" /\ rightsImplyHome(last.pre) /\ playedLegally(last.pre))
       => /\ rightsImplyHome(engine) /\ playedLegally(engine)
          /\ \A color \in Colors, side \in {"K", "Q"} :
               (\/ last.move.from = kingHome(color)
                \/ last.move.from = rookCorner(color, side)
                \/ last.move.to = rookCorner(color, side))
                 => ~engine.castling[IF color = "w" THEN side ELSE toLowerCase(side)]

\* A rook is captured on its corner while its right was set.
C19_Witness ==
  /\ last.op = "makeMove" /\ rightsImplyHome(last.pre) /\ playedLegally(last.pre)
  /\ last.move.to = 0 /\ last.pre.board[0] = "r"
  /\ last.pre.castling.q /\ ~engine.castling.q

\* C20: from the standard initial position the leaf nodes at depth 1, 2 and 3
\* number 20, 400 and 8902.
C20_Perft ==
  (last.op = "perft" /\ toFEN(last.pre) = START_FEN)
    => last.score = (CASE last.depth = 1 -> 20 [] last.depth = 2 -> 400 [] OTHER -> 8902)

\* The count to depth 3 from the initial position has been taken.
C20_Witness ==
  /\ last.op = "perft" /\ last.depth = 3
  /\ toFEN(last.pre) = START_FEN /\ Len(history) = 0

\* The deepening loop as a reference: a depth that was cut short changes
\* nothing, and the best move of a finished depth is adopted when it scores
\* more than the best so far or, with `always`, whatever it scores.  The
\* result is the best move and whether a depth was cut short.
RECURSIVE completedDepths(_, _, _, _, _, _)

completedAfter(d, r, legal, depth, perspective, maxDepth, always) ==
  IF r.aborted THEN [bestMove |-> d.bestMove, cut |-> TRUE, depths |-> depth - 1]
  ELSE completedDepths(adoptBest(d, r, always \/ r.localBestScore > d.bestScore),
                       legal, depth + 1, perspective, maxDepth, always)

completedMoves(d, moves, legal, depth, perspective, maxDepth, always) ==
  completedAfter(d,
                 rootLoop([eng |-> d.eng, ticks |-> d.ticks - 1, aborted |-> FALSE,
                           localBestMove |-> d.bestMove, localBestScore |-> -Infinity],
                          moves, 1, Len(moves), depth, perspective, maxDepth),
                 legal, depth, perspective, maxDepth, always)

completedDepths(d, legal, depth, perspective, maxDepth, always) ==
  IF depth > maxDepth \/ timeUp(d)
    THEN [bestMove |-> d.bestMove, cut |-> FALSE, depths |-> depth - 1]
  ELSE completedMoves(d, orderMoves(legal), legal, depth, perspective, maxDepth,
                      always)

maxDepthOf(difficulty) == IF difficulty = "hard" THEN 4 ELSE 3

lastCompleted(legal, color, difficulty, ticks, always) ==
  completedDepths([eng |-> legal.eng, ticks |-> ticks, bestMove |-> legal.moves[1],
                   bestScore |-> -Infinity],
                  legal.moves, 1, color, maxDepthOf(difficulty), always)

\* The reference for the latest search.
completedSearch(always) ==
  lastCompleted(generateLegalMoves(last.pre, last.pre.turn), last.pre.turn,
                last.difficulty, last.ticks, always)

searched ==
  /\ last.op = "findBestMove"
  /\ last.difficulty \in {"medium", "hard"}
  /\ last.move # NullMove

\* C21: a search that the time limit cuts short in the middle of a depth
\* returns the best move it had after the last depth it finished; no move
\* is adopted from the scores of the unfinished depth.
C21_AbortedDepthDiscarded ==
  searched => last.move = completedSearch(FALSE).bestMove

\* The move a click, or a click on the picker, has applied in this step.
humanApplies == last'.op \in {"click", "pickPromotion"} /\ last'.move # NullMove

\* It is a human's turn: both sides are human, or the human's side is to move.
humansTurn ==
  \/ ui.mode = "hvh"
  \/ ui.mode = "hvc" /\ engine.turn = ui.humanSide

legalNow(m) == m \in moveSet(generateLegalMoves(engine, engine.turn).moves)

\* The click of this step is on a square that no legal move of the selected
\* piece goes to.
clicksElsewhere ==
  /\ last'.op = "click"
  /\ ui.selected # NoSq
  /\ \A m \in moveSet(generateLegalMoves(engine, engine.turn).moves) :
       ~(m.from = ui.selected /\ m.to = last'.index)

kingAttackedAfter(e, m, color) ==
  \E made \in {makeMove([e EXCEPT !.turn = color], m, FALSE).eng} :
    isSquareAttacked(made.board, kingSquare(made, color), opponent(color))

\* C23: generateLegalMoves(color) for the side that is not to move returns
\* the pseudo-legal moves of color that leave color's king unattacked, as
\* it does for the side to move.
C23_LegalForEitherColour ==
  (last.op = "generateLegalMoves" /\ last.color # last.pre.turn
     /\ hashIsRight(last.pre) /\ playedLegally(last.pre))
    => last.moves = SelectSeq(generatePseudoMoves(last.pre, last.color),
                              LAMBDA m : ~kingAttackedAfter(last.pre, m, last.color))

\* The move m takes a piece in the position e: it lands on an occupied
\* square, or it is a pawn's capture onto an empty one (en passant).
takes(e, m) == e.board[m.to] # null \/ capturesOntoEmpty(e, m)

easyAnswer(legal) ==
  IF legal = {} THEN last.move = NullMove
  ELSE IF \E m \in legal : takes(last.pre, m)
    THEN last.move \in legal /\ takes(last.pre, last.move)
  ELSE last.move \in legal

\* C24: findBestMove(engine, 'easy') returns a legal move that captures
\* (en passant included) whenever the side to move has one, and otherwise
\* one of its legal moves.
C24_EasyPrefersCaptures ==
  (last.op = "findBestMove" /\ last.difficulty = "easy")
    => easyAnswer(moveSet(generateLegalMoves(last.pre, last.pre.turn).moves))

\* C24 happens: the one capture among several legal moves is the en passant
\* capture, and it is the answer whatever Math.random() gives.
C24_Witness ==
  /\ last.op = "findBestMove" /\ last.difficulty = "easy"
  /\ last.random = RandomLevels - 1
  /\ last.move.isEnPassant
  /\ \E m \in moveSet(generateLegalMoves(last.pre, last.pre.turn).moves) :
       ~takes(last.pre, m)

\* C25: when the search has finished a depth d, and is not cut short in the
\* middle of the next, the move it returns is the root move with the highest
\* score of depth d, the first of them in the ordered root moves, whatever the
\* scores of the depths before d were.
C25_DeepestDepthDecides ==
  searched =>
    \E ref \in {completedSearch(TRUE)} :
      (~ref.cut /\ ref.depths >= 1) => last.move = ref.bestMove

\* The side to move of e is in check and has no legal move.
isMated(e) ==
  /\ isSquareAttacked(e.board, kingSquare(e, e.turn), opponent(e.turn))
  /\ ~hasLegalMove(e)

\* The move m of the side to move of e checkmates.
matesAtOnce(e, m) == isMated(makeMove(e, m, FALSE).eng)

\* C26: negamax called on a node whose side to move is checkmated returns a
\* negative score, whichever side the search works for; so a search that is
\* not cut short returns a move that checkmates at once when there is one.
C26_MatedSideScoresNegative ==
  /\ (last.op = "negamax" /\ ~last.aborted /\ isMated(last.pre)) => last.score < 0
  /\ (searched /\ last.ticks = Unhurried
        /\ \E m \in moveSet(generateLegalMoves(last.pre, last.pre.turn).moves) :
             matesAtOnce(last.pre, m))
       => matesAtOnce(last.pre, last.move)

\* The score negamax gives the node e when it is called with the depth
\* `depth`, the clock never running out.
scoreAt(e, depth, perspective, maxDepth) ==
  negamax([eng |-> e, ticks |-> Unhurried], depth, -Infinity, Infinity,
          perspective, maxDepth).score

\* C27: of two checkmates of the same side found in one iteration, the one
\* further from the root has the score of strictly smaller absolute value,
\* when the mated side is the root mover and when it is the opponent.  The
\* node two plies further down is called with the depth less two.
C27_ShallowerMateScoresMore ==
  (last.op = "negamax" /\ ~last.aborted /\ isMated(last.pre) /\ last.depth >= 2)
    => abs(scoreAt(last.pre, last.depth - 2, last.perspective, last.maxDepth))
         < abs(last.score)

\* The latest call is orderMoves; position(m) is the place of the move m in
\* what it has returned.
ordersMoves == last.op = "orderMoves"

\* C28: in what orderMoves returns every promotion comes before every move
\* that is no promotion, captures included.
C28_PromotionsFirst ==
  ordersMoves =>
    \A i, j \in 1..Len(last.ordered) :
      (last.ordered[i].promotion # null /\ last.ordered[j].promotion = null) => i < j

\* The piece the move m of the position e takes: the piece on its target
\* square, or the pawn behind the target square for a capture en passant.
takenBy(e, m) ==
  IF e.board[m.to] # null THEN e.board[m.to]
  ELSE e.board[m.to + (IF e.turn = "w" THEN 8 ELSE -8)]

\* Ten times the value of the piece taken, less the value of the mover.
captureKey(e, m) ==
  PIECE_VALUES(toLowerCase(takenBy(e, m))) * 10 - PIECE_VALUES(toLowerCase(m.piece))

\* The number of times the move m is in the list.
timesIn(moves, m) == Cardinality({i \in 1..Len(moves) : moves[i] = m})

\* The place of the move m, which is in the list once.
placeIn(moves, m) == CHOOSE i \in 1..Len(moves) : moves[i] = m

isQuiet(e, m) == ~takes(e, m) /\ m.promotion = null

\* The sort key of a move that is no promotion, after the claim.
plainKey(e, m) == IF takes(e, m) THEN captureKey(e, m) ELSE 0

\* C29: orderMoves returns its input rearranged: every capture, en passant
\* included, comes before every quiet move that is no promotion; the
\* captures that are no promotion are in descending order of ten times the
\* value of the captured piece less the value of the mover; moves of equal
\* rank keep the order they had.
C29_CapturesBeforeQuiet ==
  ordersMoves =>
    /\ Len(last.ordered) = Len(last.moves)
    /\ \A m \in moveSet(last.moves) \cup moveSet(last.ordered) :
         timesIn(last.ordered, m) = timesIn(last.moves, m)
    /\ \A i, j \in 1..Len(last.ordered) :
         /\ (takes(last.pre, last.ordered[i]) /\ isQuiet(last.pre, last.ordered[j]))
              => i < j
         /\ (i < j /\ takes(last.pre, last.ordered[i]) /\ takes(last.pre, last.ordered[j])
               /\ last.ordered[i].promotion = null /\ last.ordered[j].promotion = null)
              => captureKey(last.pre, last.ordered[i]) >= captureKey(last.pre, last.ordered[j])
         /\ (i < j /\ last.ordered[i].promotion = null /\ last.ordered[j].promotion = null
               /\ plainKey(last.pre, last.ordered[i]) = plainKey(last.pre, last.ordered[j]))
              => placeIn(last.moves, last.ordered[i]) < placeIn(last.moves, last.ordered[j])

\* The square of the same file on the rank mirrored top to bottom.
verticalMirror(i) == (7 - rankOf(i)) * 8 + fileOf(i)

\* The value of the piece on the square i with the bonus the claim gives it:
\* the table entry of i for a white piece, of the vertical mirror of i for a
\* black one.
mirroredPiece(p, i, perspectiveColor) ==
  (IF colorOf(p) = perspectiveColor THEN 1 ELSE -1)
    * (PIECE_VALUES(toLowerCase(p))
         + PST(toLowerCase(p))[(IF colorOf(p) = "w" THEN i ELSE verticalMirror(i)) + 1])

RECURSIVE mirroredMaterial(_, _, _, _)
mirroredMaterial(board, perspectiveColor, lo, hi) ==
  IF lo > hi THEN 0
  ELSE (IF board[lo] = null THEN 0 ELSE mirroredPiece(board[lo], lo, perspectiveColor))
         + mirroredMaterial(board, perspectiveColor, lo + 1, hi)

\* The mobility term of evaluate, line 793.
mobilityTerm(e, c) ==
  clamp(Len(generateLegalMoves(e, c).moves)
          - Len(generateLegalMoves(generateLegalMoves(e, c).eng, opponent(c)).moves),
        -20, 20) * 2

\* C30: the score of evaluate is the sum, over the pieces, of value and
\* positional bonus (counted for the perspective's pieces, against for the
\* others) and the mobility term, the bonus of a black piece on the square s
\* being the table entry at the vertical mirror of s.
C30_BlackBonusIsMirrored ==
  last.op = "evaluate"
    => last.score = mirroredMaterial(last.pre.board, last.color, 0, 63)
                      + mobilityTerm(last.pre, last.color)

\* ---------------------------------------------------------------------------
\* Speculative work and the repetition bookkeeping: the calls that make and
\* unmake moves on the live engine without tracking history, among tracked
\* moves.
ProbeFens == {FenCastle, FenMateInOne, FenKings, FenNoWhiteKing}

MaxProbePly == 1

\* A legal move is made with its position recorded, as the page makes it at
\* line 1251.
ProbePlay ==
  /\ Len(history) < MaxProbePly /\ last.op \in {"new", "loadFEN"} /\ last.err = ""
  /\ \E legal \in {generateLegalMoves(engine, engine.turn)} :
       \E m \in moveSet(legal.moves) :
         /\ \E made \in {makeMove(legal.eng, m, TRUE)} :
              /\ engine' = made.eng
              /\ history' = Append(history, [move |-> m, undo |-> made.undo, track |-> TRUE,
                                             pre |-> legal.eng, post |-> made.eng])
         /\ last' = [Op("makeMove", legal.eng) EXCEPT !.move = m, !.track = TRUE]
  /\ UNCHANGED <<redo, ui, calls>>

\* The calls that work on the live engine without tracking history, each on
\* a position just loaded or just reached.
settled == last.op \in {"new", "loadFEN", "makeMove"}

ProbeNext ==
  \/ \E fen \in ProbeFens : last.op = "new" /\ LoadFEN(fen)
  \/ ProbePlay
  \/ \E c \in Colors : settled /\ GenerateLegalMoves(c)
  \/ \E c \in Colors : settled /\ Evaluate(c)
  \/ settled /\ GetGameResult
  \/ \E d \in Difficulties, t \in TickChoices, r \in {0, RandomLevels - 1} :
       settled /\ FindBestMove(d, t, r)

ProbeSpec == Init /\ [][ProbeNext]_vars

speculative == {"generateLegalMoves", "evaluate", "getGameResult", "findBestMove"}

\* C31: generateLegalMoves, evaluate, getGameResult and findBestMove (an
\* aborted search included) leave hashLine and the repetition map exactly as
\* they were before the call.
C31_SpeculationKeepsRepetition ==
  last.op \in speculative =>
    /\ engine.hashLine = last.pre.hashLine
    /\ engine.rep = last.pre.rep

\* An aborted search after a tracked move, the line holding two positions.
C31_Witness ==
  /\ last.op = "findBestMove"
  /\ last.difficulty = "hard"
  /\ last.ticks = 2
  /\ last.move # NullMove
  /\ Len(last.pre.hashLine) = 2
  /\ engine.hashLine = last.pre.hashLine
  /\ engine.rep = last.pre.rep

\* ---------------------------------------------------------------------------
\* The repetition bookkeeping under tracked play: positions are loaded, legal
\* moves are made and unmade in order, every call tracking history.
TrackFens == {FenKings, FenEnPassant}

MaxTrackPly == 4

MaxTrackLoads == 2

TrackInit ==
  /\ \E fen \in TrackFens :
       /\ engine = loadFEN(NewEngine, fen).eng
       /\ last = [OpRecord("loadFEN", NewEngine, "new") EXCEPT !.fen = fen]
  /\ history = <<>>
  /\ redo = <<>>
  /\ ui = [mode |-> "hvh", humanSide |-> "w", difficulty |-> "medium", aiTimer |-> FALSE]
  /\ calls = [loads |-> 1, searches |-> 0, ops |-> 1]

\* engine.loadFEN(fen) of a well-formed text, lines 269-321; the caller drops
\* its undo records, as the page does at lines 1476-1477.
TrackedLoad(fen) ==
  /\ calls.loads < MaxTrackLoads
  /\ \E res \in {loadFEN(engine, fen)} :
       /\ res.err = ""
       /\ engine' = res.eng
       /\ last' = [Op("loadFEN", engine) EXCEPT !.fen = fen]
  /\ history' = <<>>
  /\ calls' = [calls EXCEPT !.loads = @ + 1]
  /\ UNCHANGED <<redo, ui>>

\* engine.makeMove(m, {trackHistory: true}) of a legal move, line 1251.
TrackedMove ==
  /\ Len(history) < MaxTrackPly
  /\ \E legal \in {generateLegalMoves(engine, engine.turn)} :
       \E m \in moveSet(legal.moves) :
         /\ \E made \in {makeMove(legal.eng, m, TRUE)} :
              /\ engine' = made.eng
              /\ history' = Append(history, [move |-> m, undo |-> made.undo, track |-> TRUE,
                                             pre |-> legal.eng, post |-> made.eng])
         /\ last' = [Op("makeMove", legal.eng) EXCEPT !.move = m, !.track = TRUE]
  /\ UNCHANGED <<redo, ui, calls>>

\* engine.unmakeMove(undo, {trackHistory: true}) of the latest move not yet
\* unmade, line 1267.
TrackedUndo ==
  /\ Len(history) > 0
  /\ \E top \in {history[Len(history)]} :
       /\ engine' = unmakeMove(engine, top.undo, TRUE)
       /\ last' = [Op("unmakeMove", engine) EXCEPT !.base = top.pre, !.move = top.move,
                                                   !.track = TRUE]
  /\ history' = SubSeq(history, 1, Len(history) - 1)
  /\ UNCHANGED <<redo, ui, calls>>

TrackNext ==
  \/ \E fen \in TrackFens : TrackedLoad(fen)
  \/ TrackedMove
  \/ TrackedUndo

TrackSpec == TrackInit /\ [][TrackNext]_vars

\* The number of times the hash stands in the line.
timesInLine(line, key) == Cardinality({i \in 1..Len(line) : line[i] = key})

\* C32: after successful loadFEN calls and history-tracked makeMove and
\* unmakeMove calls the repetition map is the multiset of hashLine (the keys
\* are the hashes of the line, each with its number of occurrences, none with
\* 0), the last element of hashLine is the current hash, and
\* getRepetitionCount() is at least 1.
C32_RepetitionIsLine ==
  /\ DOMAIN engine.rep = {engine.hashLine[i] : i \in 1..Len(engine.hashLine)}
  /\ \A key \in DOMAIN engine.rep :
       engine.rep[key] = timesInLine(engine.hashLine, key) /\ engine.rep[key] # 0
  /\ Len(engine.hashLine) > 0
  /\ engine.hashLine[Len(engine.hashLine)] = engine.hash
  /\ getRepetitionCount(engine) >= 1

\* In a position loaded after other moves, the fourth move brings the
\* loaded position back: its hash is counted twice.
C32_Witness ==
  /\ last.op = "makeMove"
  /\ calls.loads = 2
  /\ Len(engine.hashLine) = 5
  /\ getRepetitionCount(engine) = 2
  /\ C32_RepetitionIsLine

\* ---------------------------------------------------------------------------
\* The whole page: every handler that touches the engine or the timer, on an
\* engine whose makeMove and unmakeMove calls are watched.  ui.timers counts
\* the timeouts that are set and have neither fired nor been cleared.

\* A stopAI that clears nothing.
stopNothing(u) == u

\* stopAI, lines 1219-1225.
stopAI(u) == IF u.aiTimer THEN [u EXCEPT !.aiTimer = FALSE, !.timers = @ - 1] ELSE u

\* Lines 1229-1242 for the timer: stopAI, then setTimeout when `set`.
timerAfter(u, set) ==
  [stopAI(u) EXCEPT !.aiTimer = set, !.timers = @ + (IF set THEN 1 ELSE 0)]

\* White may not castle, Black may castle short.
\* "4k2r/7p/8/8/8/8/8/4K3 w k - 0 1"
FenRookUp ==
  Fen(<<"4", "k", "2", "r", "/", "7", "p", "/", "8", "/", "8", "/", "8", "/", "8", "/", "8", "/",
        "4", "K", "3">>, <<"w">>, <<"k">>, <<"-">>, <<"0">>, <<"1">>)

DeskStartFens == {FenRookUp, FenKings}

DeskFens == {FenMateInOne, FenFewFields, FenNoWhiteKing}

\* The values of modeSelect and humanSideSelect when init reads them.
DeskModes == {<<"hvh", "w">>, <<"hvc", "w">>}

MaxDeskEvents == 3
MaxDeskPly == 2
\* The human picks among the first legal moves of the list.
MaxDeskChoices == 6
MaxDeskLoads == 1
MaxDeskSettings == 1
MaxDeskSearches == 1

\* init, lines 1028-1048 and 1537-1540, and a position applied through the
\* dialog.
DeskInit ==
  \E fen \in DeskStartFens, m \in DeskModes :
    \E u \in {[mode |-> m[1], humanSide |-> m[2], difficulty |-> "medium",
               aiTimer |-> FALSE, timers |-> 0]} :
      \E res \in {fenApply(watch(NewEngine), <<>>, <<>>, u, fen)} :
        /\ engine = res.eng
        /\ history = res.history
        /\ redo = res.redo
        /\ ui = timerAfter(u, res.aiTimer)
        /\ calls = [loads |-> 0, searches |-> 0, ops |-> 0, settings |-> 0]
        /\ last = [OpRecord("fenApply", NewEngine, "new") EXCEPT !.fen = fen]

\* What a handler built on applyMove or the dialog has left.
DeskIs(res) ==
  /\ engine' = res.eng
  /\ history' = res.history
  /\ redo' = res.redo
  /\ ui' = timerAfter(ui, res.aiTimer)

\* handleSquareActivate, lines 1332-1371, twice: a piece of the side to move
\* is selected, then one of its destinations is activated.
DeskClick ==
  /\ calls.ops < MaxDeskEvents /\ Len(history) < MaxDeskPly
  /\ isHumanToMove(engine, ui)
  /\ \E selected \in {generateLegalMoves(engine, engine.turn)} :
       \E i \in 1..clamp(Len(selected.moves), 0, MaxDeskChoices) :
         \E res \in {applyMove(selected.eng, history, redo, ui, selected.moves[i], TRUE)} :
           /\ DeskIs(res)
           /\ last' = [Op("click", engine) EXCEPT !.move = selected.moves[i],
                                                  !.err = res.err]
  /\ calls' = [calls EXCEPT !.ops = @ + 1]

\* A timeout fires, lines 1235-1241.
DeskTimer(ticks, random) ==
  /\ calls.ops < MaxDeskEvents /\ calls.searches < MaxDeskSearches
  /\ Len(history) < MaxDeskPly
  /\ ui.timers > 0
  /\ IF ui.difficulty = "easy" THEN ticks = 0 ELSE random = 0
  /\ \E best \in {findBestMove(engine, ui.difficulty, ticks, random)} :
       \E fired \in {[ui EXCEPT !.aiTimer = FALSE, !.timers = @ - 1]} :
         IF best.move = NullMove
           THEN /\ engine' = best.eng
                /\ ui' = fired
                /\ last' = Op("aiMove", engine)
                /\ UNCHANGED <<history, redo>>
           ELSE \E res \in {applyMove(best.eng, history, redo, fired,
                                      aiPromotion(best.move), FALSE)} :
                  /\ engine' = res.eng
                  /\ history' = res.history
                  /\ redo' = res.redo
                  /\ ui' = timerAfter(fired, res.aiTimer)
                  /\ last' = [Op("aiMove", engine) EXCEPT !.move = aiPromotion(best.move),
                                                          !.err = res.err,
                                                          !.ticks = ticks]
  /\ calls' = [calls EXCEPT !.searches = @ + 1, !.ops = @ + 1]

\* An undoMove that keeps its entry in ui.history.
DeskUndoKeeps ==
  /\ calls.ops < MaxDeskEvents
  /\ Len(history) > 0
  /\ \E top \in {history[Len(history)]} :
       \E ai \in {maybeStartAI(renderAll(unmakeMove(engine, top.undo, TRUE)), ui)} :
         /\ engine' = ai.eng
         /\ redo' = Append(redo, top)
         /\ ui' = timerAfter(ui, ai.aiTimer)
         /\ last' = [Op("undoMove", engine) EXCEPT !.base = top.pre, !.move = top.move]
  /\ calls' = [calls EXCEPT !.ops = @ + 1]
  /\ UNCHANGED history

\* undoMove, lines 1263-1275.
DeskUndo ==
  /\ calls.ops < MaxDeskEvents
  /\ Len(history) > 0
  /\ \E top \in {history[Len(history)]} :
       \E ai \in {maybeStartAI(renderAll(unmakeMove(engine, top.undo, TRUE)), ui)} :
         /\ engine' = ai.eng
         /\ history' = SubSeq(history, 1, Len(history) - 1)
         /\ redo' = Append(redo, top)
         /\ ui' = timerAfter(ui, ai.aiTimer)
         /\ last' = [Op("undoMove", engine) EXCEPT !.base = top.pre, !.move = top.move]
  /\ calls' = [calls EXCEPT !.ops = @ + 1]

\* redoMove, lines 1277-1289: the entry is pushed with the new undo record
\* and the new fenAfter.
DeskRedo ==
  /\ calls.ops < MaxDeskEvents
  /\ Len(redo) > 0
  /\ \E next \in {redo[Len(redo)]} :
       \E made \in {makeMove(engine, next.move, TRUE)} :
         \E ai \in {maybeStartAI(renderAll(made.eng), ui)} :
           /\ engine' = ai.eng
           /\ history' = Append(history, [next EXCEPT !.undo = made.undo,
                                                      !.pre = engine,
                                                      !.post = made.eng])
           /\ redo' = SubSeq(redo, 1, Len(redo) - 1)
           /\ ui' = timerAfter(ui, ai.aiTimer)
           /\ last' = [Op("redoMove", engine) EXCEPT !.move = next.move]
  /\ calls' = [calls EXCEPT !.ops = @ + 1]

\* resetGame, lines 1291-1302; engine.reset() loads START_FEN.
DeskReset ==
  /\ calls.ops < MaxDeskEvents
  /\ \E ai \in {maybeStartAI(renderAll(loadFEN(engine, START_FEN).eng), ui)} :
       /\ engine' = ai.eng
       /\ ui' = timerAfter(ui, ai.aiTimer)
  /\ history' = <<>>
  /\ redo' = <<>>
  /\ last' = Op("resetGame", engine)
  /\ calls' = [calls EXCEPT !.ops = @ + 1]

\* The click handler of fenApplyBtn, lines 1468-1487.
DeskFen(fen) ==
  /\ calls.ops < MaxDeskEvents /\ calls.loads < MaxDeskLoads
  /\ \E res \in {fenApply(engine, history, redo, ui, fen)} :
       /\ DeskIs(res)
       /\ last' = [Op("fenApply", engine) EXCEPT !.fen = fen, !.err = res.err]
  /\ calls' = [calls EXCEPT !.ops = @ + 1, !.loads = @ + 1]

\* The change handlers of modeSelect, humanSideSelect and difficultySelect,
\* lines 1520-1534; humanSideSelect is enabled in "hvc" only and
\* difficultySelect is disabled in "hvh" (lines 1203-1217).
DeskSetting(field, value) ==
  /\ calls.ops < MaxDeskEvents /\ calls.settings < MaxDeskSettings
  /\ field = "humanSide" => ui.mode = "hvc"
  /\ field = "difficulty" => ui.mode # "hvh"
  /\ ui[field] # value
  /\ \E u \in {[ui EXCEPT ![field] = value]} :
       \E ai \in {maybeStartAI(engine, u)} :
         /\ engine' = ai.eng
         /\ ui' = timerAfter(u, ai.aiTimer)
  /\ last' = Op(field, engine)
  /\ calls' = [calls EXCEPT !.ops = @ + 1, !.settings = @ + 1]
  /\ UNCHANGED <<history, redo>>

DeskNext ==
  \/ DeskClick
  \/ \E t \in TickChoices, r \in {0, RandomLevels - 1} : DeskTimer(t, r)
  \/ DeskUndo
  \/ DeskRedo
  \/ DeskReset
  \/ \E fen \in DeskFens : DeskFen(fen)
  \/ \E mode \in Modes : DeskSetting("mode", mode)
  \/ \E side \in Colors : DeskSetting("humanSide", side)
  \/ \E d \in {"easy", "hard"} : DeskSetting("difficulty", d)

DeskSpec == DeskInit /\ [][DeskNext]_vars

\* C33: on the page's engine every unmakeMove call (of move generation, of
\* the search, aborted or not, and of undo) is given the undo record of the
\* latest makeMove not yet reverted, with that call's trackHistory; no undo
\* record is used twice.
C33_StackDiscipline == watched(engine) /\ ~engine.strayed

\* The computer has searched and moved, the move has been undone: the
\* human's move is the one makeMove not reverted.
C33_Witness ==
  /\ last.op = "undoMove"
  /\ last.prev = "aiMove"
  /\ Len(engine.made) = 1
  /\ engine.made[1].track
  /\ ~engine.strayed

fenAfter(entry) == toFEN(entry.post)

\* C37: whenever ui.history is not empty, engine.toFEN() is the fenAfter of
\* its last entry.
C37_HistoryMirrorsEngine ==
  Len(history) > 0 => toFEN(engine) = fenAfter(history[Len(history)])

\* The callback of the timer has applied a move.
aiApplied == last.op = "aiMove" /\ last.move # NullMove /\ last.err = ""

\* C38: at most one timeout is pending, it is the one ui.aiTimer holds, and
\* when the callback applies a move the game was not over and the side to
\* move was the computer's in the mode and side chosen.
C38_AiSchedulingIsSafe ==
  /\ ui.timers <= 1
  /\ ui.aiTimer <=> ui.timers = 1
  /\ aiApplied => /\ ~getGameResult(last.pre).over
                  /\ isComputerToMove(last.pre, ui)

\* The computer moves after the user has changed the mode.
C38_Witness ==
  /\ aiApplied
  /\ last.prev = "mode"
  /\ ~getGameResult(last.pre).over
  /\ isComputerToMove(last.pre, ui)

\* C39: no move is applied, by a human or by the computer, in a position
\* that getGameResult reports as over.
C39_NoMoveAfterGameOver ==
  (last.op \in {"click", "aiMove"} /\ last.move # NullMove /\ last.err = "")
    => ~getGameResult(last.pre).over

\* C40: when a handler has finished, the game is not over and the side to
\* move is the computer's, a timeout is pending.
C40_TimerPendingForComputer ==
  (~getGameResult(engine).over /\ isComputerToMove(engine, ui)) => ui.aiTimer

\* The cached king squares hold the kings.
kingsCached(e) ==
  /\ e.wKing \in Squares /\ e.board[e.wKing] = "K"
  /\ e.bKing \in Squares /\ e.board[e.bKing] = "k"

\* C34: after a successful loadFEN, and after makeMove and unmakeMove of a
\* move that generateLegalMoves has returned for the side to move, made in a
\* position whose king squares were cached rightly, board[wKing] is the
\* white king and board[bKing] is the black king.
C34_KingSquaresCached ==
  \/ last.op = "loadFEN" /\ last.err # ""
  \/ last.op \in {"makeMove", "unmakeMove"} /\ ~kingsCached(last.pre)
  \/ last.op \notin {"loadFEN", "makeMove", "unmakeMove"}
  \/ kingsCached(engine)

\* ---------------------------------------------------------------------------
\* The recursion of negamax, lines 828-856, without the line
\* `if (alpha >= beta) break` and so without alpha and beta: every move of
\* every node is searched, on the same live engine.  The clock is not read.
\* The result is [eng, score, nodes], nodes counting the calls.
RECURSIVE fullNegamax(_, _, _, _)

\* Lines 848-850: L is [eng, best, nodes].
fullAfter(L, back, res) ==
  [eng |-> back, best |-> greater(-res.score, L.best), nodes |-> L.nodes + res.nodes]

fullResult(L, undo, res) == fullAfter(L, unmakeMove(res.eng, undo, FALSE), res)

\* Lines 846-847.
fullMove(L, made, depth, perspective, maxDepth) ==
  fullResult(L, made.undo, fullNegamax(made.eng, depth - 1, perspective, maxDepth))

RECURSIVE fullLoop(_, _, _, _, _, _, _)
fullLoop(L, moves, lo, hi, depth, perspective, maxDepth) ==
  IF lo > hi THEN L
  ELSE IF lo = hi
    THEN fullMove(L, makeMove(L.eng, moves[lo], FALSE), depth, perspective, maxDepth)
  ELSE fullLoop(fullLoop(L, moves, lo, (lo + hi) \div 2, depth, perspective, maxDepth),
                moves, (lo + hi) \div 2 + 1, hi, depth, perspective, maxDepth)

fullScore(L) == [eng |-> L.eng, score |-> L.best, nodes |-> L.nodes]

fullLegal(legal, depth, perspective, maxDepth) ==
  fullScore(fullLoop([eng |-> legal.eng, best |-> -Infinity, nodes |-> 1], orderMoves(legal.moves),
                     1, Len(legal.moves), depth, perspective, maxDepth))

fullLeaf(ev) == [eng |-> ev.eng, score |-> ev.score, nodes |-> 1]

fullNode(result, depth, perspective, maxDepth) ==
  IF result.over
    THEN IF result.result = "checkmate"
           THEN [eng |-> result.eng,
                 score |-> (IF result.eng.turn = perspective THEN -100000 ELSE 100000)
                             - (maxDepth - depth),
                 nodes |-> 1]
           ELSE [eng |-> result.eng, score |-> 0, nodes |-> 1]
  ELSE IF depth = 0 THEN fullLeaf(evaluate(result.eng, perspective))
  ELSE fullLegal(generateLegalMoves(result.eng, result.eng.turn), depth, perspective,
                 maxDepth)

fullNegamax(e, depth, perspective, maxDepth) ==
  fullNode(getGameResult(e), depth, perspective, maxDepth)

\* The nodes below the root, each searched by one negamax call.
PruneNext ==
  \/ DeepPlay
  \/ \E maxDepth \in {3, 4} : \E depth \in 1..maxDepth : \E ply \in 1..depth :
       \E ticks \in {0, Unhurried} : Negamax(maxDepth, depth, ply, ticks)

PruneSpec == DeepInit /\ [][PruneNext]_vars

\* A negamax call that was not aborted, on the node one move below the root:
\* the root loop negates its score for the root move (lines 863-872).
rootMoveSearched ==
  /\ last.op = "negamax" /\ ~last.aborted
  /\ Len(history) = 1
  /\ last.perspective = opponent(last.pre.turn)

nodesOf(e, depth, perspective, maxDepth) ==
  Unhurried - negamax([eng |-> e, ticks |-> Unhurried], depth, -Infinity, Infinity,
                      perspective, maxDepth).ticks

RECURSIVE minimax(_, _, _, _)

\* The better of two values for the side that chooses at a node.
chosen(score, best, maximising) ==
  IF maximising THEN greater(score, best)
  ELSE IF score < best THEN score ELSE best

minimaxAfter(L, back, res) ==
  [eng |-> back, best |-> chosen(res.score, L.best, L.maximising),
   maximising |-> L.maximising]

minimaxResult(L, undo, res) == minimaxAfter(L, unmakeMove(res.eng, undo, FALSE), res)

minimaxMove(L, made, depth, perspective, maxDepth) ==
  minimaxResult(L, made.undo, minimax(made.eng, depth - 1, perspective, maxDepth))

RECURSIVE minimaxLoop(_, _, _, _, _, _, _)
minimaxLoop(L, moves, lo, hi, depth, perspective, maxDepth) ==
  IF lo > hi THEN L
  ELSE IF lo = hi
    THEN minimaxMove(L, makeMove(L.eng, moves[lo], FALSE), depth, perspective, maxDepth)
  ELSE minimaxLoop(minimaxLoop(L, moves, lo, (lo + hi) \div 2, depth, perspective,
                               maxDepth),
                   moves, (lo + hi) \div 2 + 1, hi, depth, perspective, maxDepth)

minimaxScore(L) == [eng |-> L.eng, score |-> L.best]

minimaxLegal(legal, maximising, depth, perspective, maxDepth) ==
  minimaxScore(minimaxLoop([eng |-> legal.eng,
                            best |-> IF maximising THEN -Infinity ELSE Infinity,
                            maximising |-> maximising],
                           legal.moves, 1, Len(legal.moves), depth, perspective, maxDepth))

minimaxLeaf(ev) == [eng |-> ev.eng, score |-> ev.score]

minimaxNode(result, depth, perspective, maxDepth) ==
  IF result.over
    THEN IF result.result = "checkmate"
           THEN [eng |-> result.eng,
                 score |-> (IF result.eng.turn = perspective THEN -100000 ELSE 100000)
                             - (maxDepth - depth)]
           ELSE [eng |-> result.eng, score |-> 0]
  ELSE IF depth = 0 THEN minimaxLeaf(evaluate(result.eng, perspective))
  ELSE minimaxLegal(generateLegalMoves(result.eng, result.eng.turn),
                    result.eng.turn = perspective, depth, perspective, maxDepth)

minimax(e, depth, perspective, maxDepth) ==
  minimaxNode(getGameResult(e), depth, perspective, maxDepth)

\* C36: with no abort, the score the root loop gives a root move at the
\* iteration depth d, the negated score of negamax(d - 1) on the position
\* after the move (lines 864-872), is the minimax value of that position
\* d - 1 plies deep for the root mover; at depth 1 it is the static
\* evaluation of the position after the move for the mover.
C36_RootScoreIsMinimax ==
  rootMoveSearched
    => -last.score = minimax(last.pre, last.depth, last.perspective, last.maxDepth).score

====
